---- MODULE Spec2Model ----
(***************************************************************************)
(* winput: backend dispatch, the lazily created driver session of the hid  *)
(* package and the locking discipline of the public input actions.         *)
(*                                                                         *)
(* Callers (goroutines) run the public actions of winput.go step by step;  *)
(* a step is one lock acquisition, one read of shared state under a lock,  *)
(* one critical section or one delivery call.  hid.Init and hid.Close run  *)
(* under the write side of initMutex and do not wait inside, so each is    *)
(* one step; SetBackend is one step for the same reason (backendMutex).    *)
(*                                                                         *)
(* Spec     the public actions of winput with SetBackend, Init and Close.  *)
(* SpecHid  the operations of the hid package called directly by           *)
(*          concurrent callers, with Init and Close.                       *)
(* SpecMove the trajectory of one hid.Move call, in int32 arithmetic.      *)
(* SpecDisp the trajectory while the user moves the mouse.                 *)
(* SpecEnc  the parameters of the mouse messages.                          *)
(* SpecKey  the parameter of the key messages and the character table.     *)
(* SpecDrv  the stroke buffers handed to the driver.                       *)
(* SpecKbd  the keyboard actions run one at a time, every delivery call    *)
(*          free to fail.                                                  *)
(* SpecRes  the DPI query, the image-to-desktop conversion and the pointer *)
(*          actions run one at a time; a trajectory inside an action runs  *)
(*          step by step, with the timer and the user's hand between.      *)
(* SpecFair the public actions with SetBackend and Close under fair        *)
(*          scheduling.                                                    *)
(***************************************************************************)
EXTENDS Integers, Sequences, FiniteSets, TLC

VARIABLES
    currentBackend,  \* winput.currentBackend
    inputMutex,      \* winput.inputMutex: 0 = free, else the holder
    initMutex,       \* hid.initMutex: the set of callers holding RLock
    ctx,             \* hid.ctx
    mouseDev,        \* hid.mouseDev
    keyboardDev,     \* hid.keyboardDev
    initialized,     \* hid.initialized
    dllHandle,       \* interception.dllHandle (0 = not loaded)
    win,             \* state of the target window as the OS reports it
    env,             \* driver environment the current session was probed in
    created,         \* number of contexts interception_create_context made
    destroyed,       \* handles passed to interception_destroy_context
    closed,          \* hid.Close has ended a session
    log,             \* events delivered since all callers were last outside
                     \* an action, in delivery order
    lastSet,         \* argument of the most recent SetBackend call
    pc,              \* per caller: position in the running action
    op,              \* per caller: the action being run and its arguments
    cb,              \* per caller: checkBackend's local cb
    be,              \* per caller: value returned by the last getBackend()
    idx,             \* per caller: index of the next event of the action
    lCtx,            \* per caller: context handle returned by acquire*
    lDev,            \* per caller: device id returned by acquire*
    res,             \* per caller: error the action is about to return
    cause,           \* per caller: underlying failure behind res
    attempted,       \* per caller: hid.Init ran in this action
    mv,              \* the locals of one hid.Move call and what it injected
    timeout,         \* the channel of time.After(2s) in hid.Move is ready
    encIn,           \* arguments handed to the encoders
    encOut,          \* what the encoders produced for encIn
    kb               \* one keyboard action run alone: its call, its position
                     \* and what it delivered

hidVars == <<ctx, mouseDev, keyboardDev, initialized, dllHandle, env,
             created, destroyed, closed>>
procVars == <<pc, op, cb, be, idx, lCtx, lDev, res, cause, attempted>>
auxVars == <<mv, timeout, encIn, encOut, kb>>
vars == <<currentBackend, inputMutex, initMutex, win, log, lastSet,
          hidVars, procVars, auxVars>>

----------------------------------------------------------------------------
(* Bounds *)

MaxSessions == 2

\* Displacements of the cursor by the user during one hid.Move call.
MaxDisplacements == 1

\* The concurrent callers.
Procs == {1, 2}

----------------------------------------------------------------------------
(* Program constants *)

BackendMessage == 0
BackendHID == 1
MaxInterceptionDevices == 20
WM_MOUSEMOVE == 512
WM_MOUSEWHEEL == 522
KEYEVENTF_UNICODE == 4
KEYEVENTF_KEYUP == 2
WM_LBUTTONDOWN == 513
WM_LBUTTONUP == 514
WM_LBUTTONDBLCLK == 515
WM_RBUTTONDOWN == 516
WM_RBUTTONUP == 517
WM_MBUTTONDOWN == 519
WM_MBUTTONUP == 520
MK_RBUTTON == 2
MK_MBUTTON == 16
MouseStateRightDown == 4
MouseStateRightUp == 8
MouseStateMiddleDown == 16
MouseStateMiddleUp == 32
MK_LBUTTON == 1

\* interception: the allocated stroke buffer, mouse and key states.
strokeSize == 24
MouseStateLeftDown == 1
MouseStateLeftUp == 2
MouseStateWheel == 1024
KeyStateDown == 0
KeyStateUp == 1

\* keyboard: the messages of the key events.
WM_KEYDOWN == 256
WM_KEYUP == 257
WM_CHAR == 258

\* keyboard.Key: the scan codes of keys.go.
KeyEsc == 1
Key1 == 2
Key2 == 3
Key3 == 4
Key4 == 5
Key5 == 6
Key6 == 7
Key7 == 8
Key8 == 9
Key9 == 10
Key0 == 11
KeyMinus == 12
KeyEqual == 13
KeyBkSp == 14
KeyTab == 15
KeyQ == 16
KeyW == 17
KeyE == 18
KeyR == 19
KeyT == 20
KeyY == 21
KeyU == 22
KeyI == 23
KeyO == 24
KeyP == 25
KeyLBr == 26
KeyRBr == 27
KeyEnter == 28
KeyCtrl == 29
KeyA == 30
KeyS == 31
KeyD == 32
KeyF == 33
KeyG == 34
KeyH == 35
KeyJ == 36
KeyK == 37
KeyL == 38
KeySemi == 39
KeyQuot == 40
KeyTick == 41
KeyShift == 42
KeyBackslash == 43
KeyZ == 44
KeyX == 45
KeyC == 46
KeyV == 47
KeyB == 48
KeyN == 49
KeyM == 50
KeyComma == 51
KeyDot == 52
KeySlash == 53
KeyAlt == 56
KeySpace == 57
KeyCaps == 58
KeyF1 == 59
KeyF2 == 60
KeyF3 == 61
KeyF4 == 62
KeyF5 == 63
KeyF6 == 64
KeyF7 == 65
KeyF8 == 66
KeyF9 == 67
KeyF10 == 68
KeyNumLock == 69
KeyScroll == 70
KeyF11 == 87
KeyF12 == 88
KeyHome == 71
KeyArrowUp == 72
KeyPageUp == 73
KeyLeft == 75
KeyRight == 77
KeyEnd == 79
KeyArrowDown == 80
KeyPageDown == 81
KeyInsert == 82
KeyDelete == 83
KeyRightCtrl == 29
KeyRightAlt == 56
KeyDivide == 53

Backends == {BackendMessage, BackendHID}

\* The one window handle the callers hold; hwnd 0 is the global API.
HWND == 1

----------------------------------------------------------------------------
(* Inputs *)

\* The window: shown, without WS_VISIBLE, minimized (iconic), destroyed.
WinStates == {"ok", "hidden", "minimized", "gone"}

\* Driver environments: whether LoadLibrary finds the image and resolves
\* the two symbols Load insists on, whether the image also exports
\* interception_destroy_context (destroy), whether
\* interception_create_context returns a handle, and which device indices
\* answer is_mouse / is_keyboard (none when the image lacks them).
Environments ==
    { [library |-> "missing", driver |-> FALSE, mice |-> {}, kbds |-> {},
       destroy |-> FALSE],
      [library |-> "nosyms",  driver |-> FALSE, mice |-> {}, kbds |-> {},
       destroy |-> TRUE],
      [library |-> "ok", driver |-> FALSE, mice |-> {1}, kbds |-> {2},
       destroy |-> TRUE],
      [library |-> "ok", driver |-> TRUE,  mice |-> {}, kbds |-> {},
       destroy |-> TRUE],
      [library |-> "ok", driver |-> TRUE,  mice |-> {}, kbds |-> {},
       destroy |-> FALSE],
      [library |-> "ok", driver |-> TRUE,  mice |-> {21}, kbds |-> {22},
       destroy |-> TRUE],
      [library |-> "ok", driver |-> TRUE,  mice |-> {3, 5}, kbds |-> {1, 20},
       destroy |-> TRUE],
      [library |-> "ok", driver |-> TRUE,  mice |-> {1}, kbds |-> {2},
       destroy |-> FALSE],
      [library |-> "ok", driver |-> TRUE,  mice |-> {}, kbds |-> {2},
       destroy |-> TRUE],
      [library |-> "ok", driver |-> TRUE,  mice |-> {4}, kbds |-> {},
       destroy |-> TRUE] }

NoEnv ==
    [library |-> "missing", driver |-> FALSE, mice |-> {}, kbds |-> {},
     destroy |-> FALSE]

\* The calls a caller may issue.
Calls ==
    { [name |-> "KeyDown", hwnd |-> HWND, keys |-> <<KeyShift>>],
      [name |-> "KeyUp", hwnd |-> 0, keys |-> <<KeyShift>>],
      [name |-> "Press", hwnd |-> HWND, keys |-> <<KeyA>>],
      [name |-> "Press", hwnd |-> 0, keys |-> <<KeyA>>],
      [name |-> "PressHotkey", hwnd |-> HWND, keys |-> <<KeyShift, KeyA>>],
      [name |-> "Scroll", hwnd |-> HWND, keys |-> <<>>] }

NoOp == [name |-> "none", hwnd |-> 0, keys |-> <<>>]

\* Cursor positions a movement starts from and the targets it is given:
\* every distance class of the step policy with its boundaries, both
\* signs, and one target far outside any desktop.
Starts == { [x |-> 500, y |-> 500], [x |-> 0, y |-> 0] }
Targets ==
    { [x |-> 520, y |-> 480], [x |-> 502, y |-> 500],
      [x |-> 500, y |-> 500], [x |-> 599, y |-> 500],
      [x |-> 600, y |-> 500], [x |-> 999, y |-> 500],
      [x |-> 1000, y |-> 500], [x |-> 1499, y |-> 500],
      [x |-> 1500, y |-> 500], [x |-> -300, y |-> 700],
      [x |-> 7, y |-> -3], [x |-> 2000000000, y |-> 500] }

\* Arguments of the message encoders: client coordinates inside, on and
\* beyond the 16-bit bounds, wheel deltas of both signs, and the screen
\* position of the window's client origin.
Coords == {-40000, -32769, -32768, -1, 0, 1, 100, 32767, 32768, 40000}
Deltas == {120, -120, 0, 240, 32767, -32768, 40000}
Origins == { [x |-> 0, y |-> 0], [x |-> 100, y |-> -50] }
EncInputs ==
    [fn : {"args"}, x : Coords, y : Coords, delta : Deltas, origin : Origins]

\* Every key keys.go declares, under its name, and both directions.
KeyNames ==
    {"KeyEsc", "Key1", "Key2", "Key3", "Key4", "Key5", "Key6", "Key7",
      "Key8", "Key9", "Key0", "KeyMinus", "KeyEqual", "KeyBkSp", "KeyTab",
      "KeyQ", "KeyW", "KeyE", "KeyR", "KeyT", "KeyY", "KeyU", "KeyI",
      "KeyO", "KeyP", "KeyLBr", "KeyRBr", "KeyEnter", "KeyCtrl", "KeyA",
      "KeyS", "KeyD", "KeyF", "KeyG", "KeyH", "KeyJ", "KeyK", "KeyL",
      "KeySemi", "KeyQuot", "KeyTick", "KeyShift", "KeyBackslash", "KeyZ",
      "KeyX", "KeyC", "KeyV", "KeyB", "KeyN", "KeyM", "KeyComma", "KeyDot",
      "KeySlash", "KeyAlt", "KeySpace", "KeyCaps", "KeyF1", "KeyF2",
      "KeyF3", "KeyF4", "KeyF5", "KeyF6", "KeyF7", "KeyF8", "KeyF9",
      "KeyF10", "KeyNumLock", "KeyScroll", "KeyF11", "KeyF12", "KeyHome",
      "KeyArrowUp", "KeyPageUp", "KeyLeft", "KeyRight", "KeyEnd",
      "KeyArrowDown", "KeyPageDown", "KeyInsert", "KeyDelete",
      "KeyRightCtrl", "KeyRightAlt", "KeyDivide"}
KeyCode ==
    [KeyEsc |-> KeyEsc, Key1 |-> Key1, Key2 |-> Key2, Key3 |-> Key3,
      Key4 |-> Key4, Key5 |-> Key5, Key6 |-> Key6, Key7 |-> Key7,
      Key8 |-> Key8, Key9 |-> Key9, Key0 |-> Key0, KeyMinus |-> KeyMinus,
      KeyEqual |-> KeyEqual, KeyBkSp |-> KeyBkSp, KeyTab |-> KeyTab,
      KeyQ |-> KeyQ, KeyW |-> KeyW, KeyE |-> KeyE, KeyR |-> KeyR,
      KeyT |-> KeyT, KeyY |-> KeyY, KeyU |-> KeyU, KeyI |-> KeyI,
      KeyO |-> KeyO, KeyP |-> KeyP, KeyLBr |-> KeyLBr, KeyRBr |-> KeyRBr,
      KeyEnter |-> KeyEnter, KeyCtrl |-> KeyCtrl, KeyA |-> KeyA,
      KeyS |-> KeyS, KeyD |-> KeyD, KeyF |-> KeyF, KeyG |-> KeyG,
      KeyH |-> KeyH, KeyJ |-> KeyJ, KeyK |-> KeyK, KeyL |-> KeyL,
      KeySemi |-> KeySemi, KeyQuot |-> KeyQuot, KeyTick |-> KeyTick,
      KeyShift |-> KeyShift, KeyBackslash |-> KeyBackslash, KeyZ |-> KeyZ,
      KeyX |-> KeyX, KeyC |-> KeyC, KeyV |-> KeyV, KeyB |-> KeyB,
      KeyN |-> KeyN, KeyM |-> KeyM, KeyComma |-> KeyComma,
      KeyDot |-> KeyDot, KeySlash |-> KeySlash, KeyAlt |-> KeyAlt,
      KeySpace |-> KeySpace, KeyCaps |-> KeyCaps, KeyF1 |-> KeyF1,
      KeyF2 |-> KeyF2, KeyF3 |-> KeyF3, KeyF4 |-> KeyF4, KeyF5 |-> KeyF5,
      KeyF6 |-> KeyF6, KeyF7 |-> KeyF7, KeyF8 |-> KeyF8, KeyF9 |-> KeyF9,
      KeyF10 |-> KeyF10, KeyNumLock |-> KeyNumLock,
      KeyScroll |-> KeyScroll, KeyF11 |-> KeyF11, KeyF12 |-> KeyF12,
      KeyHome |-> KeyHome, KeyArrowUp |-> KeyArrowUp,
      KeyPageUp |-> KeyPageUp, KeyLeft |-> KeyLeft, KeyRight |-> KeyRight,
      KeyEnd |-> KeyEnd, KeyArrowDown |-> KeyArrowDown,
      KeyPageDown |-> KeyPageDown, KeyInsert |-> KeyInsert,
      KeyDelete |-> KeyDelete, KeyRightCtrl |-> KeyRightCtrl,
      KeyRightAlt |-> KeyRightAlt, KeyDivide |-> KeyDivide]
KeyInputs == [fn : {"key"}, name : KeyNames, isUp : BOOLEAN]

\* The characters LookupKey is asked about: all of ASCII, by code point.
RuneInputs == [fn : {"rune"}, r : 0..127]

\* Strokes handed to the driver encoder, with the library the loader
\* finds and the stroke size that library's driver works with (20 is the
\* released driver's).
MouseStrokes ==
    [fn : {"mouse"}, State : {0, MouseStateLeftDown, MouseStateWheel, 65535},
     Flags : {0, 1}, Rolling : {-5, 0, 120, -32768, 32767},
     X : {10, -10, 0, 70000, 2147483647, -2147483647 - 1},
     Y : {-10, 10, -1, 65536}, Information : {0, 305419896},
     library : {"ok", "missing"}, expect : {18, 20, 24}]
KeyStrokes ==
    [fn : {"keystroke"}, Code : {KeyA, KeyShift, KeyDelete, 65535},
     State : {KeyStateDown, KeyStateUp}, Information : {0, 305419896},
     library : {"ok", "missing"}, expect : {18, 20, 24}]

\* The keyboard actions run one at a time, with the backend getBackend()
\* returned: single keys (0 is a scan code no key has), hotkeys of up to
\* three keys, and texts given by code point ("a", "Ab", "!", "a" followed
\* by a character outside the table, and one beyond U+FFFF).  Type with
\* hwnd 0 is the global Type.
KbdCalls ==
    LET Texts == {<<97>>, <<65, 98>>, <<33>>, <<97, 233>>, <<128512>>}
    IN  [name : {"KeyDown", "KeyUp", "Press"}, cb : Backends,
         hwnd : {0, HWND},
         keys : {<<k>> : k \in {KeyA, KeyShift, KeyDelete, 0}},
         text : {<<>>}]
        \cup [name : {"PressHotkey"}, cb : Backends, hwnd : {0, HWND},
              keys : {<<KeyCtrl, KeyShift, KeyA>>, <<KeyShift, KeyA>>,
                      <<KeyCtrl, 0>>, <<>>},
              text : {<<>>}]
        \cup [name : {"Type"}, cb : Backends, hwnd : {0, HWND},
              keys : {<<>>}, text : Texts]

\* What rng.Intn(3) - 1 can return.
Jitters == {-1, 0, 1}

\* mv while no hid.Move runs; encIn / encOut before an encoder ran.
NoMove ==
    [pc |-> "idle", targetX |-> 0, targetY |-> 0, cx |-> 0, cy |-> 0,
     steps |-> 0, i |-> 0, curX |-> 0, curY |-> 0, sent |-> 0,
     sumX |-> 0, sumY |-> 0, res |-> "nil", pushed |-> 0]
NoEnc == [fn |-> "none"]

\* kb while no keyboard action runs; once is what sendInputOnce has
\* seen: "new" before the self-test ran, then its outcome.
NoKbd ==
    [pc |-> "idle", call |-> [name |-> "none"], i |-> 0, out |-> <<>>,
     failed |-> 0, at |-> 0, res |-> "nil", once |-> "new"]

----------------------------------------------------------------------------
(* Pure helpers *)

Reverse(s) == [i \in 1..Len(s) |-> s[Len(s) + 1 - i]]

\* The events an action delivers, in order.
Plan(o) ==
    CASE o.name = "KeyDown" -> <<[ev |-> "down", key |-> o.keys[1]]>>
      [] o.name = "KeyUp" -> <<[ev |-> "up", key |-> o.keys[1]]>>
      [] o.name = "Press" -> << [ev |-> "down", key |-> o.keys[1]],
                                [ev |-> "up", key |-> o.keys[1]] >>
      [] o.name = "PressHotkey" ->
            [i \in 1..Len(o.keys) |-> [ev |-> "down", key |-> o.keys[i]]]
            \o [i \in 1..Len(o.keys) |->
                    [ev |-> "up", key |-> Reverse(o.keys)[i]]]
      [] o.name = "Scroll" -> <<[ev |-> "wheel", key |-> 0]>>
      [] OTHER -> <<>>

\* Press evaluates getBackend() again for its key-up; the other actions
\* read it once.
Rereads(o) == o.name = "Press"

\* interception.IsMouse / IsKeyboard against the environment.
IsMouse(e, dev) == dev \in e.mice
IsKeyboard(e, dev) == dev \in e.kbds

\* The device discovery loop of Init, from index i with the ids found so
\* far.
RECURSIVE Probe(_, _, _, _)
Probe(e, i, m, k) ==
    IF i > MaxInterceptionDevices THEN [mouse |-> m, kbd |-> k]
    ELSE Probe(e, i + 1,
               IF IsMouse(e, i) /\ m = 0 THEN i ELSE m,
               IF IsKeyboard(e, i) /\ k = 0 THEN i ELSE k)

\* Init gives up after the probe when this holds.
NoDevices(m, k) == m = 0 /\ k = 0

----------------------------------------------------------------------------
(* hid: session lifecycle *)

\* interception.Load: nil when already loaded, else the LoadLibrary and
\* symbol-resolution failures.
LoadErr(e) ==
    IF dllHandle # 0 THEN "nil"
    ELSE IF e.library = "missing" THEN "ErrLibraryNotFound"
    ELSE IF e.library = "nosyms" THEN "symbols missing"
    ELSE "nil"

\* interception.CreateContext: a fresh non-zero handle, or 0.
CreateContext(e) == IF e.driver THEN created + 1 ELSE 0

\* interception.DestroyContext(h) with the library of environment e: the
\* handles destroyed after it.  It does nothing when the library does not
\* export interception_destroy_context.
DestroyContext(e, h) ==
    IF e.destroy THEN destroyed \cup {h} ELSE destroyed

\* hid.Init under initMutex.Lock: the error it returns and the session
\* state it leaves behind.
InitOutcome(e) ==
    LET cur == [err |-> "nil", ctx |-> ctx, mouseDev |-> mouseDev,
                keyboardDev |-> keyboardDev, initialized |-> initialized,
                dllHandle |-> dllHandle, created |-> created,
                destroyed |-> destroyed]
        h == CreateContext(e)
        pr == Probe(e, 1, mouseDev, keyboardDev)
    IN  IF initialized THEN cur
        ELSE IF LoadErr(e) # "nil" THEN [cur EXCEPT !.err = LoadErr(e)]
        ELSE IF h = 0
            THEN [cur EXCEPT !.err = "ErrDriverNotInstalled", !.ctx = 0,
                             !.dllHandle = 0]
        ELSE IF NoDevices(pr.mouse, pr.kbd)
            THEN [cur EXCEPT !.err = "no interception devices found",
                             !.ctx = 0, !.dllHandle = 0,
                             !.mouseDev = pr.mouse, !.keyboardDev = pr.kbd,
                             !.created = created + 1,
                             !.destroyed = DestroyContext(e, h)]
        ELSE [cur EXCEPT !.ctx = h, !.dllHandle = 1,
                         !.mouseDev = pr.mouse, !.keyboardDev = pr.kbd,
                         !.initialized = TRUE, !.created = created + 1]

\* Variant: Close keeps the device ids.
CloseOutcome_KeepDevices ==
    IF ~initialized
    THEN [ctx |-> ctx, mouseDev |-> mouseDev, keyboardDev |-> keyboardDev,
          initialized |-> initialized, dllHandle |-> dllHandle,
          destroyed |-> destroyed]
    ELSE [ctx |-> 0, mouseDev |-> mouseDev, keyboardDev |-> keyboardDev,
          initialized |-> FALSE, dllHandle |-> 0,
          destroyed |-> IF ctx # 0 THEN DestroyContext(env, ctx)
                        ELSE destroyed]

\* hid.Close under initMutex.Lock.  The library loaded is the one the
\* session was created with (env).
CloseOutcome ==
    IF ~initialized
    THEN [ctx |-> ctx, mouseDev |-> mouseDev, keyboardDev |-> keyboardDev,
          initialized |-> initialized, dllHandle |-> dllHandle,
          destroyed |-> destroyed]
    ELSE [ctx |-> 0, mouseDev |-> 0, keyboardDev |-> 0,
          initialized |-> FALSE, dllHandle |-> 0,
          destroyed |-> IF ctx # 0 THEN DestroyContext(env, ctx)
                        ELSE destroyed]

\* Init's initMutex.Lock() returns when nobody holds the read lock.
CanInit == initMutex = {}

\* The environments an Init call can observe: it returns before looking
\* at anything when the session exists.  After MaxSessions contexts were
\* created the calls are followed only in the environments in which
\* interception_create_context gives no further context.
Observed ==
    IF initialized THEN {env}
    ELSE IF created < MaxSessions THEN Environments
    ELSE {e \in Environments : e.library # "ok" \/ ~e.driver}

\* The assignments of one Init call that observes environment e.
ApplyInit(e) ==
    \E o \in {InitOutcome(e)} :
        /\ ctx' = o.ctx
        /\ mouseDev' = o.mouseDev
        /\ keyboardDev' = o.keyboardDev
        /\ initialized' = o.initialized
        /\ dllHandle' = o.dllHandle
        /\ created' = o.created
        /\ destroyed' = o.destroyed
        /\ env' = IF ~initialized /\ o.initialized THEN e ELSE env
        /\ closed' = closed

\* hid.Init called directly by a user of the hid package.
HidInit ==
    /\ CanInit
    /\ \E e \in Observed : ApplyInit(e)
    /\ UNCHANGED <<auxVars, currentBackend, inputMutex, initMutex, win, log, lastSet,
                   procVars>>

\* Variant: Close takes the session down without waiting for the readers.
CanClose_NoWait == TRUE

\* Close's initMutex.Lock() returns when nobody holds the read lock.
CanClose == initMutex = {}

\* hid.Close called by a user of the hid package.
HidClose ==
    /\ CanClose
    /\ LET o == CloseOutcome
       IN  /\ ctx' = o.ctx
           /\ mouseDev' = o.mouseDev
           /\ keyboardDev' = o.keyboardDev
           /\ initialized' = o.initialized
           /\ dllHandle' = o.dllHandle
           /\ destroyed' = o.destroyed
    /\ env' = NoEnv
    /\ closed' = (closed \/ initialized)
    /\ UNCHANGED <<auxVars, currentBackend, inputMutex, initMutex, win, log, lastSet,
                   created, procVars>>

----------------------------------------------------------------------------
(* winput: backend selection and target validation *)

\* Variant: SetBackend refuses the driver backend while no session exists.
SetBackendValue_Guarded(b) ==
    IF b = BackendHID /\ ~initialized THEN BackendMessage ELSE b

\* The value SetBackend stores.
SetBackendValue(b) == b

SetBackend(b) ==
    /\ currentBackend' = SetBackendValue(b)
    /\ lastSet' = b
    /\ UNCHANGED <<auxVars, inputMutex, initMutex, win, log, hidVars, procVars>>

\* Window.IsValid and Window.IsVisible on the window state.
IsValid(w) == w # "gone"
IsVisible(w) == w = "ok"

\* Variant: checkReady looks only at the handle's validity.
CheckReady_ValidOnly(w) == IF w = "gone" THEN "ErrWindowGone" ELSE "nil"

\* Window.checkReady.
CheckReady(w) ==
    IF ~IsValid(w) THEN "ErrWindowGone"
    ELSE IF ~IsVisible(w) THEN "ErrWindowNotVisible"
    ELSE "nil"

\* Variant: checkBackend initializes the driver whatever is selected.
NeedsInit_Always(b) == TRUE

\* checkBackend initializes the driver for this backend.
NeedsInit(b) == b = BackendHID

\* checkBackend's mapping of an hid.Init error.
MapInitError(err) ==
    IF err = "ErrDriverNotInstalled" THEN "ErrDriverNotInstalled"
    ELSE "ErrDLLLoadFailed"

\* The window is closed, hidden, minimized or shown again by its owner.
WindowChange ==
    /\ win # "gone"
    /\ \E w \in WinStates \ {win} : win' = w
    /\ UNCHANGED <<auxVars, currentBackend, inputMutex, initMutex, log, lastSet,
                   hidVars, procVars>>

----------------------------------------------------------------------------
(* winput: the public input actions, one caller p *)

\* Variant: Lock() returns without waiting for the holder.
InputMutexFree_NoWait == TRUE

\* inputMutex.Lock() can return.
InputMutexFree == inputMutex = 0

\* Where an event goes for backend b: the driver path starts with
\* EnsureInit, the message path is a single post.
Deliver(b) == IF b = BackendHID THEN "EnsureInit" ELSE "post"

\* The event the caller is about to deliver.
Event(p) == Plan(op[p])[idx[p]]

\* The log entry of one delivered event.
Entry(p, enc, c, d) ==
    [act |-> p, name |-> op[p].name, enc |-> enc, chk |-> cb[p],
     ev |-> Event(p).ev, key |-> Event(p).key, ctx |-> c, dev |-> d]

\* A caller enters public action o and inputMutex.Lock() returns; window
\* methods go on to checkReady, the global functions to checkBackend.
Lock(p, o) ==
    /\ pc[p] = "idle"
    /\ InputMutexFree
    /\ inputMutex' = p
    /\ op' = [op EXCEPT ![p] = o]
    /\ idx' = [idx EXCEPT ![p] = 1]
    /\ pc' = [pc EXCEPT ![p] = IF o.hwnd # 0 THEN "checkReady"
                                ELSE "checkBackend"]
    /\ UNCHANGED <<auxVars, currentBackend, initMutex, win, log, lastSet, hidVars, cb,
                   be, lCtx, lDev, res, cause, attempted>>

\* w.checkReady(): an error returns from the action.
CheckReadyStep(p) ==
    /\ pc[p] = "checkReady"
    /\ LET r == CheckReady(win)
       IN  /\ res' = [res EXCEPT ![p] = r]
           /\ pc' = [pc EXCEPT ![p] = IF r # "nil" THEN "Unlock"
                                       ELSE "checkBackend"]
    /\ UNCHANGED <<auxVars, currentBackend, inputMutex, initMutex, win, log, lastSet,
                   hidVars, op, cb, be, idx, lCtx, lDev, cause, attempted>>

\* checkBackend(): read currentBackend under RLock into cb.
CheckBackendStep(p) ==
    /\ pc[p] = "checkBackend"
    /\ cb' = [cb EXCEPT ![p] = currentBackend]
    /\ pc' = [pc EXCEPT ![p] = IF NeedsInit(currentBackend) THEN "Init"
                                ELSE "getBackend"]
    /\ UNCHANGED <<auxVars, currentBackend, inputMutex, initMutex, win, log, lastSet,
                   hidVars, op, be, idx, lCtx, lDev, res, cause, attempted>>

\* checkBackend(): hid.Init() and the mapping of its error.
InitStep(p) ==
    /\ pc[p] = "Init"
    /\ CanInit
    /\ \E e \in Observed :
          /\ ApplyInit(e)
          /\ \E err \in {InitOutcome(e).err} :
                 /\ cause' = [cause EXCEPT ![p] = err]
                 /\ res' = [res EXCEPT ![p] =
                              IF err = "nil" THEN "nil" ELSE MapInitError(err)]
                 /\ pc' = [pc EXCEPT ![p] = IF err = "nil" THEN "getBackend"
                                             ELSE "Unlock"]
    /\ attempted' = [attempted EXCEPT ![p] = TRUE]
    /\ UNCHANGED <<auxVars, currentBackend, inputMutex, initMutex, win, log, lastSet,
                   op, cb, be, idx, lCtx, lDev>>

\* getBackend(): read currentBackend under RLock and dispatch on it.
GetBackendStep(p) ==
    /\ pc[p] = "getBackend"
    /\ be' = [be EXCEPT ![p] = currentBackend]
    /\ pc' = [pc EXCEPT ![p] = Deliver(currentBackend)]
    /\ UNCHANGED <<auxVars, currentBackend, inputMutex, initMutex, win, log, lastSet,
                   hidVars, op, cb, idx, lCtx, lDev, res, cause, attempted>>

\* After event idx was delivered: return nil after the last one, else go
\* on with the next event (Press reads the backend again).
Advance(p) ==
    IF idx[p] = Len(Plan(op[p]))
    THEN /\ pc' = [pc EXCEPT ![p] = "Unlock"]
         /\ idx' = idx
    ELSE /\ idx' = [idx EXCEPT ![p] = idx[p] + 1]
         /\ pc' = [pc EXCEPT ![p] = IF Rereads(op[p]) THEN "getBackend"
                                     ELSE Deliver(be[p])]

\* Variant: a delivery error returns without the deferred Unlock.
Fail_NoUnlock(p, err) ==
    /\ res' = [res EXCEPT ![p] = err]
    /\ pc' = [pc EXCEPT ![p] = "idle"]
    /\ idx' = idx

\* A delivery error returns from the action.
Fail(p, err) ==
    /\ res' = [res EXCEPT ![p] = err]
    /\ pc' = [pc EXCEPT ![p] = "Unlock"]
    /\ idx' = idx

\* The message path can fail only where the code looks at the result: the
\* global key functions ignore keybd_event's result.
PostCanFail(o) == o.hwnd # 0

\* Message backend: one PostMessage / keybd_event call.  mouse.Scroll
\* converts the client point first: window.ClientToScreen answers "window
\* is minimized" for an iconic window and "ClientToScreen failed" when
\* the call fails, and then nothing is posted.
PostStep(p) ==
    /\ pc[p] = "post"
    /\ \E err \in IF Event(p).ev = "wheel" /\ win = "minimized"
                   THEN {"window is minimized"}
                   ELSE {"nil"}
                        \cup (IF Event(p).ev = "wheel"
                              THEN {"ClientToScreen failed"} ELSE {})
                        \cup (IF PostCanFail(op[p])
                              THEN {"ErrPostMessageFailed"} ELSE {}) :
          IF err = "nil"
          THEN /\ log' = Append(log, Entry(p, BackendMessage, 0, 0))
               /\ Advance(p)
               /\ res' = res
          ELSE /\ Fail(p, err)
               /\ log' = log
    /\ UNCHANGED <<auxVars, currentBackend, inputMutex, initMutex, win, lastSet,
                   hidVars, op, cb, be, lCtx, lDev, cause, attempted>>

\* hid.EnsureInit(): read initialized under RLock.
EnsureInitStep(p) ==
    /\ pc[p] = "EnsureInit"
    /\ pc' = [pc EXCEPT ![p] = IF initialized THEN "acquire"
                                ELSE "EnsureInit_Init"]
    /\ UNCHANGED <<auxVars, currentBackend, inputMutex, initMutex, win, log, lastSet,
                   hidVars, op, cb, be, idx, lCtx, lDev, res, cause,
                   attempted>>

\* hid.EnsureInit(): Init(); its error is returned as it is.
EnsureInitInitStep(p) ==
    /\ pc[p] = "EnsureInit_Init"
    /\ CanInit
    /\ \E e \in Observed :
          /\ ApplyInit(e)
          /\ \E err \in {InitOutcome(e).err} :
                 /\ cause' = [cause EXCEPT ![p] = err]
                 /\ res' = [res EXCEPT ![p] = err]
                 /\ pc' = [pc EXCEPT ![p] = IF err = "nil" THEN "acquire"
                                             ELSE "Unlock"]
    /\ attempted' = [attempted EXCEPT ![p] = TRUE]
    /\ UNCHANGED <<auxVars, currentBackend, inputMutex, initMutex, win, log, lastSet,
                   op, cb, be, idx, lCtx, lDev>>

\* interception send: when interception_send answers 0 the error is the
\* error number of the call, or ErrSendFailed when that number is 0.
SendErrors == {"syscall.Errno", "ErrSendFailed"}

\* The device acquireMouse / acquireKeyboard hands out for an event.
DeviceFor(ev) == IF ev = "wheel" THEN mouseDev ELSE keyboardDev

\* acquireMouse / acquireKeyboard after EnsureInit: RLock, then the
\* handles, or "hid backend closed".
AcquireStep(p) ==
    /\ pc[p] = "acquire"
    /\ IF ~initialized
       THEN /\ res' = [res EXCEPT ![p] = "hid backend closed"]
            /\ pc' = [pc EXCEPT ![p] = "Unlock"]
            /\ UNCHANGED <<initMutex, lCtx, lDev>>
       ELSE /\ initMutex' = initMutex \cup {p}
            /\ lCtx' = [lCtx EXCEPT ![p] = ctx]
            /\ lDev' = [lDev EXCEPT ![p] = DeviceFor(Event(p).ev)]
            /\ pc' = [pc EXCEPT ![p] = "send"]
            /\ res' = res
    /\ UNCHANGED <<auxVars, currentBackend, inputMutex, win, log, lastSet, hidVars,
                   op, cb, be, idx, cause, attempted>>

\* interception.SendMouse / SendKey with the acquired handles, then the
\* deferred RUnlock.
SendStep(p) ==
    /\ pc[p] = "send"
    /\ \E err \in {"nil"} \cup SendErrors :
          IF err = "nil"
          THEN /\ log' = Append(log, Entry(p, BackendHID, lCtx[p], lDev[p]))
               /\ Advance(p)
               /\ res' = res
          ELSE /\ Fail(p, err)
               /\ log' = log
    /\ initMutex' = initMutex \ {p}
    /\ lCtx' = [lCtx EXCEPT ![p] = 0]
    /\ lDev' = [lDev EXCEPT ![p] = 0]
    /\ UNCHANGED <<auxVars, currentBackend, inputMutex, win, lastSet, hidVars, op, cb,
                   be, cause, attempted>>

\* The deferred inputMutex.Unlock(); the action returns res.
Unlock(p) ==
    /\ pc[p] = "Unlock"
    /\ inputMutex' = 0
    /\ pc' = [pc EXCEPT ![p] = "idle"]
    /\ op' = [op EXCEPT ![p] = NoOp]
    /\ cb' = [cb EXCEPT ![p] = BackendMessage]
    /\ be' = [be EXCEPT ![p] = BackendMessage]
    /\ idx' = [idx EXCEPT ![p] = 0]
    /\ res' = [res EXCEPT ![p] = "nil"]
    /\ cause' = [cause EXCEPT ![p] = "nil"]
    /\ attempted' = [attempted EXCEPT ![p] = FALSE]
    /\ log' = IF \A q \in Procs \ {p} : pc[q] = "idle" THEN <<>> ELSE log
    /\ UNCHANGED <<auxVars, currentBackend, initMutex, win, lastSet, hidVars, lCtx,
                   lDev>>

----------------------------------------------------------------------------
(* hid: the input operations called directly, without winput's lock *)

\* The operations of the hid package a caller may run.
HidCalls ==
    { [name |-> "hid.Move", hwnd |-> 0, keys |-> <<>>],
      [name |-> "hid.Click", hwnd |-> 0, keys |-> <<>>],
      [name |-> "hid.Scroll", hwnd |-> 0, keys |-> <<>>],
      [name |-> "hid.KeyDown", hwnd |-> 0, keys |-> <<KeyA>>],
      [name |-> "hid.KeyUp", hwnd |-> 0, keys |-> <<KeyA>>],
      [name |-> "hid.Press", hwnd |-> 0, keys |-> <<KeyA>>] }

\* One stretch under the read lock: acquire the handles for a device kind,
\* send the strokes, release (the deferred unlock).
Section(kind, strokes) ==
    <<[k |-> "acquire", kind |-> kind]>>
    \o [j \in 1..Len(strokes) |-> [k |-> "stroke", kind |-> strokes[j]]]
    \o <<[k |-> "release", kind |-> kind]>>

\* What an operation does, in order.  Move sends its relative strokes
\* under one acquisition (two stand for the trajectory); Click is Move and
\* then a second acquisition for button down and up; Press is KeyDown and
\* then KeyUp, each with its own acquisition.
HidProgram(o) ==
    CASE o.name = "hid.Move" -> Section("mouse", <<"move", "move">>)
      [] o.name = "hid.Click" ->
            Section("mouse", <<"move", "move">>)
            \o Section("mouse", <<"leftdown", "leftup">>)
      [] o.name = "hid.Scroll" -> Section("mouse", <<"wheel">>)
      [] o.name = "hid.KeyDown" -> Section("keyboard", <<"down">>)
      [] o.name = "hid.KeyUp" -> Section("keyboard", <<"up">>)
      [] o.name = "hid.Press" ->
            Section("keyboard", <<"down">>) \o Section("keyboard", <<"up">>)
      [] OTHER -> <<>>

\* The step of its operation a caller is at.
Item(p) == HidProgram(op[p])[idx[p]]

\* The device id acquireMouse / acquireKeyboard returns.
HidDevice(kind) == IF kind = "mouse" THEN mouseDev ELSE keyboardDev

\* A caller enters an operation; each starts by acquiring its handles.
HidCall(p, o) ==
    /\ pc[p] = "idle"
    /\ op' = [op EXCEPT ![p] = o]
    /\ idx' = [idx EXCEPT ![p] = 1]
    /\ pc' = [pc EXCEPT ![p] = "hid_EnsureInit"]
    /\ UNCHANGED <<auxVars, currentBackend, inputMutex, initMutex, win, log,
                   lastSet, hidVars, cb, be, lCtx, lDev, res, cause,
                   attempted>>

\* EnsureInit: read initialized under RLock, then RUnlock.
HidEnsureInit(p) ==
    /\ pc[p] = "hid_EnsureInit"
    /\ pc' = [pc EXCEPT ![p] = IF initialized THEN "hid_RLock"
                                ELSE "hid_Init"]
    /\ UNCHANGED <<auxVars, currentBackend, inputMutex, initMutex, win, log,
                   lastSet, hidVars, op, cb, be, idx, lCtx, lDev, res, cause,
                   attempted>>

\* EnsureInit: Init(); its error ends the operation.
HidEnsureInitInit(p) ==
    /\ pc[p] = "hid_Init"
    /\ CanInit
    /\ \E e \in Observed :
          /\ ApplyInit(e)
          /\ \E err \in {InitOutcome(e).err} :
                 /\ res' = [res EXCEPT ![p] = err]
                 /\ pc' = [pc EXCEPT ![p] = IF err = "nil" THEN "hid_RLock"
                                             ELSE "hid_return"]
    /\ attempted' = [attempted EXCEPT ![p] = TRUE]
    /\ UNCHANGED <<auxVars, currentBackend, inputMutex, initMutex, win, log,
                   lastSet, op, cb, be, idx, lCtx, lDev, cause>>

\* acquireMouse / acquireKeyboard after EnsureInit: RLock, then the
\* handles, or RUnlock and "hid backend closed".
HidRLock(p) ==
    /\ pc[p] = "hid_RLock"
    /\ IF ~initialized
       THEN /\ res' = [res EXCEPT ![p] = "hid backend closed"]
            /\ pc' = [pc EXCEPT ![p] = "hid_return"]
            /\ UNCHANGED <<initMutex, lCtx, lDev, idx>>
       ELSE /\ initMutex' = initMutex \cup {p}
            /\ lCtx' = [lCtx EXCEPT ![p] = ctx]
            /\ lDev' = [lDev EXCEPT ![p] = HidDevice(Item(p).kind)]
            /\ idx' = [idx EXCEPT ![p] = idx[p] + 1]
            /\ pc' = [pc EXCEPT ![p] = "hid_run"]
            /\ res' = res
    /\ UNCHANGED <<auxVars, currentBackend, inputMutex, win, log, lastSet,
                   hidVars, op, cb, be, cause, attempted>>

\* interception.SendMouse / SendKey with the acquired handles; a failure
\* returns through the deferred unlock.
HidStroke(p) ==
    /\ pc[p] = "hid_run"
    /\ Item(p).k = "stroke"
    /\ \E err \in {"nil"} \cup SendErrors :
          IF err = "nil"
          THEN /\ idx' = [idx EXCEPT ![p] = idx[p] + 1]
               /\ UNCHANGED <<initMutex, lCtx, lDev, res, pc>>
          ELSE /\ res' = [res EXCEPT ![p] = err]
               /\ pc' = [pc EXCEPT ![p] = "hid_return"]
               /\ initMutex' = initMutex \ {p}
               /\ lCtx' = [lCtx EXCEPT ![p] = 0]
               /\ lDev' = [lDev EXCEPT ![p] = 0]
               /\ idx' = idx
    /\ UNCHANGED <<auxVars, currentBackend, inputMutex, win, log, lastSet,
                   hidVars, op, cb, be, cause, attempted>>

\* The deferred unlock at the end of a stretch; the operation goes on to
\* its next acquisition or returns nil.
HidRUnlock(p) ==
    /\ pc[p] = "hid_run"
    /\ Item(p).k = "release"
    /\ initMutex' = initMutex \ {p}
    /\ lCtx' = [lCtx EXCEPT ![p] = 0]
    /\ lDev' = [lDev EXCEPT ![p] = 0]
    /\ IF idx[p] = Len(HidProgram(op[p]))
       THEN pc' = [pc EXCEPT ![p] = "hid_return"] /\ idx' = idx
       ELSE /\ pc' = [pc EXCEPT ![p] = "hid_EnsureInit"]
            /\ idx' = [idx EXCEPT ![p] = idx[p] + 1]
    /\ UNCHANGED <<auxVars, currentBackend, inputMutex, win, log, lastSet,
                   hidVars, op, cb, be, res, cause, attempted>>

\* The operation returns res to its caller.
HidReturn(p) ==
    /\ pc[p] = "hid_return"
    /\ pc' = [pc EXCEPT ![p] = "idle"]
    /\ op' = [op EXCEPT ![p] = NoOp]
    /\ idx' = [idx EXCEPT ![p] = 0]
    /\ res' = [res EXCEPT ![p] = "nil"]
    /\ attempted' = [attempted EXCEPT ![p] = FALSE]
    /\ UNCHANGED <<auxVars, currentBackend, inputMutex, initMutex, win, log,
                   lastSet, hidVars, cb, be, lCtx, lDev, cause>>

----------------------------------------------------------------------------
(* int32 arithmetic: results wrap to 32 bits as Go's do.  A value is     *)
(* split into its high and low 16-bit halves so that no intermediate     *)
(* result leaves the range the model checker computes in.                *)

W16 == 65536
Hi16(a) == a \div W16
Lo16(a) == a % W16
Wrap16(h) == ((h + 32768) % W16) - 32768
Join32(h, l) == Wrap16(h) * W16 + l

Add32(a, b) ==
    LET l == Lo16(a) + Lo16(b)
    IN  Join32(Hi16(a) + Hi16(b) + (l \div W16), l % W16)

Sub32(a, b) ==
    LET l == Lo16(a) - Lo16(b)
    IN  Join32(Hi16(a) - Hi16(b) + (l \div W16), l % W16)

\* a * n for a small non-negative n.
Mul32(a, n) ==
    LET l == Lo16(a) * n
    IN  Join32(Hi16(a) * n + (l \div W16), l % W16)

\* Go's a / n for n > 0: the quotient truncated toward zero.
Quo32(a, n) == (a \div n) + (IF a < 0 /\ a % n # 0 THEN 1 ELSE 0)

\* hid.abs and hid.max on int32.
abs(n) == IF n < 0 THEN Sub32(0, n) ELSE n
max(a, b) == IF a > b THEN a ELSE b

----------------------------------------------------------------------------
(* hid.Move: the trajectory *)

\* Variant: the short-distance step count without its floor of 5.
StepsFor_NoFloor(maxDist) ==
    IF maxDist < 100 THEN Quo32(maxDist, 5)
    ELSE IF maxDist < 500 THEN 20
    ELSE IF maxDist < 1000 THEN 30
    ELSE 40

\* The adaptive step count.
StepsFor(maxDist) ==
    IF maxDist < 100
    THEN (IF Quo32(maxDist, 5) < 5 THEN 5 ELSE Quo32(maxDist, 5))
    ELSE IF maxDist < 500 THEN 20
    ELSE IF maxDist < 1000 THEN 30
    ELSE 40

\* maxDist as Move computes it from the cursor and the target.
MaxDist(cx, cy, targetX, targetY) ==
    max(abs(Sub32(targetX, cx)), abs(Sub32(targetY, cy)))

\* The point on the straight line the cursor should have reached at step
\* i: c + (target - c) * i / steps.
NextPos(c, target, i, steps) ==
    Add32(c, Quo32(Mul32(Sub32(target, c), i), steps))

\* The select at the top of a step finds the timeout channel ready.
TimedOut == timeout

\* Variant: no correction is left out.
Skipped_Never(i, steps, dx, dy) == FALSE

\* A small correction in the last five steps is left out.
Skipped(i, steps, dx, dy) == i > steps - 5 /\ abs(dx) < 3 /\ abs(dy) < 3

\* Variant: every step gets the random offset.
Jittered_Always(i, steps) == TRUE

\* The steps that get a random offset: all but the last three.
Jittered(i, steps) == i < steps - 2

\* After step i the loop goes on to the select of step i + 1, or Move
\* returns nil.
LoopEnd(m) ==
    IF m.i = m.steps THEN [m EXCEPT !.pc = "done", !.res = "nil"]
    ELSE [m EXCEPT !.pc = "loop", !.i = m.i + 1]

\* Move is called with the cursor at start: GetCursorPos, the step count
\* and the timer.  The handles are already acquired.
MoveCall(start, target) ==
    /\ mv.pc = "idle"
    /\ \E ok \in BOOLEAN :
          mv' = IF ok
                THEN [NoMove EXCEPT
                        !.pc = "loop", !.targetX = target.x,
                        !.targetY = target.y, !.cx = start.x,
                        !.cy = start.y, !.curX = start.x, !.curY = start.y,
                        !.steps = StepsFor(MaxDist(start.x, start.y,
                                                   target.x, target.y)),
                        !.i = 1]
                ELSE [NoMove EXCEPT
                        !.pc = "done", !.targetX = target.x,
                        !.targetY = target.y, !.curX = start.x,
                        !.curY = start.y, !.res = "GetCursorPos failed"]
    /\ timeout' = FALSE
    /\ UNCHANGED <<currentBackend, inputMutex, initMutex, win, log, lastSet,
                   hidVars, procVars, kb, encIn, encOut>>

\* Two seconds have passed since time.After was called: the runtime
\* makes the channel ready, whether Move is at the select of a step, in
\* the body of a step after its select, or asleep between two steps.
Deadline ==
    /\ mv.pc \in {"loop", "step"}
    /\ ~timeout
    /\ timeout' = TRUE
    /\ UNCHANGED <<currentBackend, inputMutex, initMutex, win, log, lastSet,
                   hidVars, procVars, kb, mv, encIn, encOut>>

\* The select at the top of a step.  It takes the timeout case when the
\* channel is ready, and Move returns the error; else it takes the
\* default case and the body of the step follows.  The channel is not
\* looked at anywhere else.
MoveSelect ==
    /\ mv.pc = "loop"
    /\ mv' = IF TimedOut
             THEN [mv EXCEPT !.pc = "done", !.res = "move timeout"]
             ELSE [mv EXCEPT !.pc = "step"]
    /\ UNCHANGED <<currentBackend, inputMutex, initMutex, win, log, lastSet,
                   hidVars, procVars, kb, timeout, encIn, encOut>>

\* The body of a step, after its select took the default case: the next
\* point of the line, the cursor position, the delta, and the stroke and
\* the sleep unless the step is skipped.  The cursor moves by exactly the
\* delta of a sent stroke.
MoveStep ==
    /\ mv.pc = "step"
    /\ \E cursorOk \in BOOLEAN : \E sendErr \in {"nil"} \cup SendErrors :
       \E jx, jy \in Jitters :
          LET nextX == NextPos(mv.cx, mv.targetX, mv.i, mv.steps)
              nextY == NextPos(mv.cy, mv.targetY, mv.i, mv.steps)
              dx0 == Sub32(nextX, mv.curX)
              dy0 == Sub32(nextY, mv.curY)
              jit == Jittered(mv.i, mv.steps)
              dx == IF jit THEN Add32(dx0, jx) ELSE dx0
              dy == IF jit THEN Add32(dy0, jy) ELSE dy0
          IN  IF ~cursorOk
              THEN /\ jx = 0 /\ jy = 0 /\ sendErr = "nil"
                   /\ mv' = [mv EXCEPT !.pc = "done",
                                       !.res = "GetCursorPos failed"]
              ELSE IF Skipped(mv.i, mv.steps, dx0, dy0)
              THEN /\ jx = 0 /\ jy = 0 /\ sendErr = "nil"
                   /\ mv' = LoopEnd(mv)
              ELSE IF dx = 0 /\ dy = 0
              THEN /\ (jit \/ (jx = 0 /\ jy = 0)) /\ sendErr = "nil"
                   /\ mv' = LoopEnd(mv)
              ELSE IF sendErr # "nil"
              THEN /\ (jit \/ (jx = 0 /\ jy = 0))
                   /\ mv' = [mv EXCEPT !.pc = "done", !.res = sendErr]
              ELSE /\ (jit \/ (jx = 0 /\ jy = 0))
                   /\ mv' = LoopEnd([mv EXCEPT
                                !.curX = Add32(mv.curX, dx),
                                !.curY = Add32(mv.curY, dy),
                                !.sumX = Add32(mv.sumX, dx),
                                !.sumY = Add32(mv.sumY, dy),
                                !.sent = mv.sent + 1])
    /\ UNCHANGED <<currentBackend, inputMutex, initMutex, win, log, lastSet,
                   hidVars, procVars, kb, timeout, encIn, encOut>>

\* Between two steps something else moves the cursor: the user's hand on
\* the mouse.  mv.curX / curY is where the cursor is, which the
\* GetCursorPos of the next step reads.  The select does not look at the
\* cursor, so a push after the select of a step is the same push before it.
Displace ==
    /\ mv.pc = "loop"
    /\ mv.pushed < MaxDisplacements
    /\ \E d \in {[x |-> 7, y |-> -4], [x |-> -1, y |-> 0]} :
          mv' = [mv EXCEPT !.curX = Add32(mv.curX, d.x),
                           !.curY = Add32(mv.curY, d.y),
                           !.pushed = mv.pushed + 1]
    /\ UNCHANGED <<currentBackend, inputMutex, initMutex, win, log, lastSet,
                   hidVars, procVars, kb, timeout, encIn, encOut>>

----------------------------------------------------------------------------
(* mouse: message parameters.  A 32-bit parameter is the pair of its low *)
(* and high 16-bit words.                                                *)

\* The conversions uint16(v) and int16(v): the low 16 bits of v, read
\* unsigned and signed.
Uint16(v) == Lo16(v)
Int16(v) == IF Lo16(v) >= 32768 THEN Lo16(v) - W16 ELSE Lo16(v)

\* uintptr(lo) | (uintptr(hi) << 16) for two 16-bit words.
MakeLong(lo, hi) == [lo |-> lo, hi |-> hi]

\* Variant: the coordinate is converted without clipping.
clipToInt16_Wrap(v) == Int16(v)

\* mouse.clipToInt16.
clipToInt16(v) ==
    IF v > 32767 THEN 32767
    ELSE IF v < -32768 THEN -32768
    ELSE Int16(v)

\* mouse.makeLParam.
makeLParam(x, y) ==
    MakeLong(Uint16(clipToInt16(x)), Uint16(clipToInt16(y)))

\* Variant: the delta goes into the low word.
WheelWParam_LowWord(delta) == MakeLong(Uint16(delta), Uint16(0))

\* The wparam mouse.Scroll builds:
\* uintptr(uint16(0)) | (uintptr(uint16(delta)) << 16).
WheelWParam(delta) == MakeLong(Uint16(0), Uint16(delta))

\* window.ClientToScreen on a window whose client origin is at o.
ClientToScreen(o, x, y) == [x |-> Add32(x, o.x), y |-> Add32(y, o.y)]

\* mouse.Move: post WM_MOUSEMOVE with the packed client position; the
\* error is that of post, which PostMessageW may refuse.
PostMove ==
    /\ encOut = NoEnc
    /\ \E err \in {"nil", "ErrPostMessageFailed"} :
          encOut' = [fn |-> "Move", err |-> err, msg |-> WM_MOUSEMOVE,
                     wparam |-> MakeLong(0, 0),
                     lparam |-> makeLParam(encIn.x, encIn.y)]
    /\ UNCHANGED <<currentBackend, inputMutex, initMutex, win, log, lastSet,
                   hidVars, procVars, kb, mv, timeout, encIn>>

\* mouse.Scroll: ClientToScreen, which answers "window is minimized" for
\* an iconic window and "ClientToScreen failed" when the call fails, then
\* post WM_MOUSEWHEEL with the delta in wparam and the packed screen
\* position in lparam; the error is that of post.
PostScroll ==
    /\ encOut = NoEnc
    /\ \E conv \in {"nil", "window is minimized", "ClientToScreen failed"} :
       \E err \in {"nil", "ErrPostMessageFailed"} :
          encOut' =
             IF conv = "nil"
             THEN LET s == ClientToScreen(encIn.origin, encIn.x, encIn.y)
                  IN  [fn |-> "Scroll", err |-> err, msg |-> WM_MOUSEWHEEL,
                       wparam |-> WheelWParam(encIn.delta),
                       lparam |-> makeLParam(s.x, s.y)]
             ELSE [fn |-> "Scroll", err |-> conv,
                   msg |-> 0, wparam |-> MakeLong(0, 0),
                   lparam |-> MakeLong(0, 0)]
    /\ UNCHANGED <<currentBackend, inputMutex, initMutex, win, log, lastSet,
                   hidVars, procVars, kb, mv, timeout, encIn>>

----------------------------------------------------------------------------
(* keyboard: the key message parameter and the character table *)

\* keyboard.isExtended: a switch on the scan code.
isExtended(key) ==
    key \in {KeyInsert, KeyDelete, KeyHome, KeyEnd, KeyPageUp, KeyPageDown,
             KeyArrowUp, KeyArrowDown, KeyLeft, KeyRight, KeyNumLock,
             KeyDivide, KeyRightCtrl, KeyRightAlt}

\* keyboard.makeKeyLParam: 1 in the low word; in the high word the low
\* byte of the scan code (bits 16-23), 256 for bit 24 and 16384 + 32768
\* for bits 30 and 31.
makeKeyLParam(sc, isUp) ==
    MakeLong(1, (sc % 256) + (IF isExtended(sc) THEN 256 ELSE 0)
                + (IF isUp THEN 16384 + 32768 ELSE 0))

\* keyboard.runeMap, keyed by code point.
runeMap ==
       97 :> [Code |-> KeyA, Shifted |-> FALSE] @@ 65 :> [Code |-> KeyA, Shifted |-> TRUE]
    @@ 98 :> [Code |-> KeyB, Shifted |-> FALSE] @@ 66 :> [Code |-> KeyB, Shifted |-> TRUE]
    @@ 99 :> [Code |-> KeyC, Shifted |-> FALSE] @@ 67 :> [Code |-> KeyC, Shifted |-> TRUE]
    @@ 100 :> [Code |-> KeyD, Shifted |-> FALSE] @@ 68 :> [Code |-> KeyD, Shifted |-> TRUE]
    @@ 101 :> [Code |-> KeyE, Shifted |-> FALSE] @@ 69 :> [Code |-> KeyE, Shifted |-> TRUE]
    @@ 102 :> [Code |-> KeyF, Shifted |-> FALSE] @@ 70 :> [Code |-> KeyF, Shifted |-> TRUE]
    @@ 103 :> [Code |-> KeyG, Shifted |-> FALSE] @@ 71 :> [Code |-> KeyG, Shifted |-> TRUE]
    @@ 104 :> [Code |-> KeyH, Shifted |-> FALSE] @@ 72 :> [Code |-> KeyH, Shifted |-> TRUE]
    @@ 105 :> [Code |-> KeyI, Shifted |-> FALSE] @@ 73 :> [Code |-> KeyI, Shifted |-> TRUE]
    @@ 106 :> [Code |-> KeyJ, Shifted |-> FALSE] @@ 74 :> [Code |-> KeyJ, Shifted |-> TRUE]
    @@ 107 :> [Code |-> KeyK, Shifted |-> FALSE] @@ 75 :> [Code |-> KeyK, Shifted |-> TRUE]
    @@ 108 :> [Code |-> KeyL, Shifted |-> FALSE] @@ 76 :> [Code |-> KeyL, Shifted |-> TRUE]
    @@ 109 :> [Code |-> KeyM, Shifted |-> FALSE] @@ 77 :> [Code |-> KeyM, Shifted |-> TRUE]
    @@ 110 :> [Code |-> KeyN, Shifted |-> FALSE] @@ 78 :> [Code |-> KeyN, Shifted |-> TRUE]
    @@ 111 :> [Code |-> KeyO, Shifted |-> FALSE] @@ 79 :> [Code |-> KeyO, Shifted |-> TRUE]
    @@ 112 :> [Code |-> KeyP, Shifted |-> FALSE] @@ 80 :> [Code |-> KeyP, Shifted |-> TRUE]
    @@ 113 :> [Code |-> KeyQ, Shifted |-> FALSE] @@ 81 :> [Code |-> KeyQ, Shifted |-> TRUE]
    @@ 114 :> [Code |-> KeyR, Shifted |-> FALSE] @@ 82 :> [Code |-> KeyR, Shifted |-> TRUE]
    @@ 115 :> [Code |-> KeyS, Shifted |-> FALSE] @@ 83 :> [Code |-> KeyS, Shifted |-> TRUE]
    @@ 116 :> [Code |-> KeyT, Shifted |-> FALSE] @@ 84 :> [Code |-> KeyT, Shifted |-> TRUE]
    @@ 117 :> [Code |-> KeyU, Shifted |-> FALSE] @@ 85 :> [Code |-> KeyU, Shifted |-> TRUE]
    @@ 118 :> [Code |-> KeyV, Shifted |-> FALSE] @@ 86 :> [Code |-> KeyV, Shifted |-> TRUE]
    @@ 119 :> [Code |-> KeyW, Shifted |-> FALSE] @@ 87 :> [Code |-> KeyW, Shifted |-> TRUE]
    @@ 120 :> [Code |-> KeyX, Shifted |-> FALSE] @@ 88 :> [Code |-> KeyX, Shifted |-> TRUE]
    @@ 121 :> [Code |-> KeyY, Shifted |-> FALSE] @@ 89 :> [Code |-> KeyY, Shifted |-> TRUE]
    @@ 122 :> [Code |-> KeyZ, Shifted |-> FALSE] @@ 90 :> [Code |-> KeyZ, Shifted |-> TRUE]
    @@ 48 :> [Code |-> Key0, Shifted |-> FALSE] @@ 41 :> [Code |-> Key0, Shifted |-> TRUE]
    @@ 49 :> [Code |-> Key1, Shifted |-> FALSE] @@ 33 :> [Code |-> Key1, Shifted |-> TRUE]
    @@ 50 :> [Code |-> Key2, Shifted |-> FALSE] @@ 64 :> [Code |-> Key2, Shifted |-> TRUE]
    @@ 51 :> [Code |-> Key3, Shifted |-> FALSE] @@ 35 :> [Code |-> Key3, Shifted |-> TRUE]
    @@ 52 :> [Code |-> Key4, Shifted |-> FALSE] @@ 36 :> [Code |-> Key4, Shifted |-> TRUE]
    @@ 53 :> [Code |-> Key5, Shifted |-> FALSE] @@ 37 :> [Code |-> Key5, Shifted |-> TRUE]
    @@ 54 :> [Code |-> Key6, Shifted |-> FALSE] @@ 94 :> [Code |-> Key6, Shifted |-> TRUE]
    @@ 55 :> [Code |-> Key7, Shifted |-> FALSE] @@ 38 :> [Code |-> Key7, Shifted |-> TRUE]
    @@ 56 :> [Code |-> Key8, Shifted |-> FALSE] @@ 42 :> [Code |-> Key8, Shifted |-> TRUE]
    @@ 57 :> [Code |-> Key9, Shifted |-> FALSE] @@ 40 :> [Code |-> Key9, Shifted |-> TRUE]
    @@ 96 :> [Code |-> KeyTick, Shifted |-> FALSE] @@ 126 :> [Code |-> KeyTick, Shifted |-> TRUE]
    @@ 45 :> [Code |-> KeyMinus, Shifted |-> FALSE] @@ 95 :> [Code |-> KeyMinus, Shifted |-> TRUE]
    @@ 61 :> [Code |-> KeyEqual, Shifted |-> FALSE] @@ 43 :> [Code |-> KeyEqual, Shifted |-> TRUE]
    @@ 91 :> [Code |-> KeyLBr, Shifted |-> FALSE] @@ 123 :> [Code |-> KeyLBr, Shifted |-> TRUE]
    @@ 93 :> [Code |-> KeyRBr, Shifted |-> FALSE] @@ 125 :> [Code |-> KeyRBr, Shifted |-> TRUE]
    @@ 92 :> [Code |-> KeyBackslash, Shifted |-> FALSE] @@ 124 :> [Code |-> KeyBackslash, Shifted |-> TRUE]
    @@ 59 :> [Code |-> KeySemi, Shifted |-> FALSE] @@ 58 :> [Code |-> KeySemi, Shifted |-> TRUE]
    @@ 39 :> [Code |-> KeyQuot, Shifted |-> FALSE] @@ 34 :> [Code |-> KeyQuot, Shifted |-> TRUE]
    @@ 44 :> [Code |-> KeyComma, Shifted |-> FALSE] @@ 60 :> [Code |-> KeyComma, Shifted |-> TRUE]
    @@ 46 :> [Code |-> KeyDot, Shifted |-> FALSE] @@ 62 :> [Code |-> KeyDot, Shifted |-> TRUE]
    @@ 47 :> [Code |-> KeySlash, Shifted |-> FALSE] @@ 63 :> [Code |-> KeySlash, Shifted |-> TRUE]
    @@ 32 :> [Code |-> KeySpace, Shifted |-> FALSE] @@ 10 :> [Code |-> KeyEnter, Shifted |-> FALSE]
    @@ 9 :> [Code |-> KeyTab, Shifted |-> FALSE]

\* Variant: the lookup forgets whether Shift is required.
LookupKey_NoShift(r) ==
    IF r \in DOMAIN runeMap
    THEN [Code |-> runeMap[r].Code, Shifted |-> FALSE, ok |-> TRUE]
    ELSE [Code |-> 0, Shifted |-> FALSE, ok |-> FALSE]

\* keyboard.LookupKey: the zero KeyDef and ok = false for a character the
\* table does not hold.
LookupKey(r) ==
    IF r \in DOMAIN runeMap
    THEN [Code |-> runeMap[r].Code, Shifted |-> runeMap[r].Shifted,
          ok |-> TRUE]
    ELSE [Code |-> 0, Shifted |-> FALSE, ok |-> FALSE]

\* makeKeyLParam applied to a declared key, as KeyDown and KeyUp call it.
KeyLParam ==
    /\ encIn.fn = "key"
    /\ encOut = NoEnc
    /\ encOut' = [fn |-> "makeKeyLParam",
                  lparam |-> makeKeyLParam(KeyCode[encIn.name], encIn.isUp)]
    /\ UNCHANGED <<currentBackend, inputMutex, initMutex, win, log, lastSet,
                   hidVars, procVars, kb, mv, timeout, encIn>>

\* LookupKey applied to a character.
Lookup ==
    /\ encIn.fn = "rune"
    /\ encOut = NoEnc
    /\ encOut' = [fn |-> "LookupKey", key |-> LookupKey(encIn.r)]
    /\ UNCHANGED <<currentBackend, inputMutex, initMutex, win, log, lastSet,
                   hidVars, procVars, kb, mv, timeout, encIn>>

----------------------------------------------------------------------------
(* interception: the driver's stroke buffers.  A buffer is the sequence  *)
(* of its bytes; the byte at offset k is element k + 1.                  *)

\* make([]byte, n).
Zeros(n) == [i \in 1..n |-> 0]

\* binary.LittleEndian.PutUint16 and PutUint32 as the bytes they store;
\* PutUint32 takes the value before its conversion to uint32.
PutUint16(v) == <<v % 256, (v \div 256) % 256>>
PutUint32(v) == PutUint16(Lo16(v)) \o PutUint16(Uint16(Hi16(v)))

\* The buffer with bytes stored from offset off on.
Put(buf, off, bytes) ==
    [i \in 1..Len(buf) |->
        IF i > off /\ i <= off + Len(bytes) THEN bytes[i - off] ELSE buf[i]]

\* Variant: the fields follow each other without padding.
MouseOffsets_Packed ==
    [State |-> 0, Flags |-> 2, Rolling |-> 4, X |-> 6, Y |-> 10,
     Information |-> 14, length |-> 18]

\* The offsets SendMouse stores the fields at, and the length it sends.
MouseOffsets ==
    [State |-> 0, Flags |-> 2, Rolling |-> 4, X |-> 8, Y |-> 12,
     Information |-> 16, length |-> 20]

\* The buffer interception.SendMouse hands to send for stroke s.
MouseBuffer(s) ==
    LET o == MouseOffsets
        b1 == Put(Zeros(strokeSize), o.State, PutUint16(s.State))
        b2 == Put(b1, o.Flags, PutUint16(s.Flags))
        b3 == Put(b2, o.Rolling, PutUint16(Uint16(s.Rolling)))
        b4 == Put(b3, o.X, PutUint32(s.X))
        b5 == Put(b4, o.Y, PutUint32(s.Y))
        b6 == Put(b5, o.Information, PutUint32(s.Information))
    IN  SubSeq(b6, 1, o.length)

\* The buffer interception.SendKey hands to send for stroke s.
KeyBuffer(s) ==
    LET b1 == Put(Zeros(strokeSize), 0, PutUint16(s.Code))
        b2 == Put(b1, 2, PutUint16(s.State))
        b3 == Put(b2, 4, PutUint32(s.Information))
    IN  SubSeq(b3, 1, 8)

\* interception.Load in the environment of the inputs: the library is
\* found with its symbols or it is not; nothing else is looked at.
DrvLoad ==
    /\ encIn.fn \in {"mouse", "keystroke"}
    /\ encOut = NoEnc
    /\ encOut' = [fn |-> "Load",
                  err |-> LoadErr([library |-> encIn.library]),
                  buf |-> <<>>]
    /\ UNCHANGED <<currentBackend, inputMutex, initMutex, win, log, lastSet,
                   hidVars, procVars, kb, mv, timeout, encIn>>

\* interception.SendMouse / SendKey and send: without interception_send
\* an error; else the buffer goes to the driver, which may refuse it.
DrvSend ==
    /\ encOut.fn = "Load"
    /\ IF encOut.err # "nil"
       THEN encOut' = [fn |-> "Send", err |-> "interception_send missing",
                       buf |-> <<>>]
       ELSE \E err \in {"nil"} \cup SendErrors :
               encOut' = [fn |-> "Send", err |-> err,
                          buf |-> IF encIn.fn = "mouse"
                                  THEN MouseBuffer(encIn)
                                  ELSE KeyBuffer(encIn)]
    /\ UNCHANGED <<currentBackend, inputMutex, initMutex, win, log, lastSet,
                   hidVars, procVars, kb, mv, timeout, encIn>>

----------------------------------------------------------------------------
(* winput: the keyboard actions, one call at a time.  The target was     *)
(* checked and the driver session exists; what remains of an action is   *)
(* the sequence of delivery calls it makes and what it does when one     *)
(* fails.                                                                *)

\* user32 MapVirtualKeyW(sc, MAPVK_VSC_TO_VK) for the keys of the inputs;
\* 0 for a scan code without a virtual key.
MapScanCodeToVK(sc) ==
    CASE sc = KeyA -> 65
      [] sc = KeyShift -> 16
      [] sc = KeyCtrl -> 17
      [] sc = KeyDelete -> 46
      [] OTHER -> 0

\* Variant: the driver is handed the virtual-key code.
ScanCode_VK(k) == MapScanCodeToVK(k)

\* uint16(k): the code keyDownImpl / keyUpImpl hand to the hid package.
ScanCode(k) == k

\* One delivery call of keyDownImpl / keyUpImpl for backend b: a driver
\* stroke, keybd_event for the global functions, else a posted message.
\* fail says where the action goes on when the call fails (to; 0 stands
\* for "return") and whether the error becomes the action's result (keep).
KeyCall(b, hwnd, ev, k, fail) ==
    [do |-> IF b = BackendHID THEN "hid"
            ELSE IF hwnd = 0 THEN "keybd_event" ELSE "post",
     ev |-> ev, key |-> k, fail |-> fail]

\* Variant: a failed key-down releases the keys already pressed.
HotkeyFailTo_Release(n, i) == 2 * n - i + 2

\* Where PressHotkey goes when its i-th key-down fails: "return err".
HotkeyFailTo(n, i) == 0

\* Variant: the keys are released in the order they were pressed.
HotkeyCalls_SameOrder(b, hwnd, keys) ==
    LET n == Len(keys)
    IN  [i \in 1..n |->
            KeyCall(b, hwnd, "down", keys[i],
                    [to |-> HotkeyFailTo(n, i), keep |-> TRUE])]
        \o [i \in 1..n |->
               KeyCall(b, hwnd, "up", keys[i],
                       [to |-> 0, keep |-> TRUE])]

\* PressHotkey: the key-downs in argument order, then the key-ups from the
\* last key to the first; every error returns.
HotkeyCalls(b, hwnd, keys) ==
    LET n == Len(keys)
    IN  [i \in 1..n |->
            KeyCall(b, hwnd, "down", keys[i],
                    [to |-> HotkeyFailTo(n, i), keep |-> TRUE])]
        \o [i \in 1..n |->
               KeyCall(b, hwnd, "up", Reverse(keys)[i],
                       [to |-> 0, keep |-> TRUE])]

\* keyboard.Type for one character: one WM_CHAR post, or the two
\* surrogates of a character beyond U+FFFF; every error returns.
CharCalls(r) ==
    LET c(w) == [do |-> "post", ev |-> "char", key |-> w,
                 fail |-> [to |-> 0, keep |-> TRUE]]
    IN  IF r > 65535
        THEN <<c(55296 + ((r - 65536) \div 1024)),
               c(56320 + ((r - 65536) % 1024))>>
        ELSE <<c(r)>>

\* Type under the driver backend for one character whose calls start at
\* position at: ErrUnsupportedKey for a character outside the table; else
\* hid.Press, between hid.KeyDown and hid.KeyUp of Shift when the
\* character is shifted.  The results of these calls are dropped; inside
\* hid.Press a failed key-down returns before the key-up.
HidCharCalls(r, at) ==
    LET k == LookupKey(r)
        h(ev, key, to) == [do |-> "hid", ev |-> ev, key |-> key,
                           fail |-> [to |-> to, keep |-> FALSE]]
    IN  IF ~k.ok
        THEN <<[do |-> "ErrUnsupportedKey", ev |-> "none", key |-> r,
                fail |-> [to |-> 0, keep |-> TRUE]]>>
        ELSE IF k.Shifted
        THEN <<h("down", KeyShift, at + 1), h("down", k.Code, at + 3),
               h("up", k.Code, at + 3), h("up", KeyShift, at + 4)>>
        ELSE <<h("down", k.Code, at + 2), h("up", k.Code, at + 2)>>

\* The loop of Type over the characters of text, the first call at
\* position at: the driver calls, the WM_CHAR posts of keyboard.Type for
\* a window, or for the global Type under the Message backend one
\* sendUnicode per character, which puts uint16(r) into a key-down and a
\* key-up and ignores what SendInput returns.
RECURSIVE TypeCalls(_, _, _, _)
TypeCalls(b, hwnd, text, at) ==
    IF text = <<>> THEN <<>>
    ELSE LET cs == IF b = BackendHID THEN HidCharCalls(Head(text), at)
                   ELSE IF hwnd # 0 THEN CharCalls(Head(text))
                   ELSE <<[do |-> "SendInput", ev |-> "unicode",
                           key |-> Head(text) % 65536,
                           fail |-> [to |-> at + 1, keep |-> FALSE]]>>
         IN  cs \o TypeCalls(b, hwnd, Tail(text), at + Len(cs))

\* The delivery calls of an action, in order.
KbdProgram(c) ==
    LET ret == [to |-> 0, keep |-> TRUE]
    IN  CASE c.name = "KeyDown" ->
                <<KeyCall(c.cb, c.hwnd, "down", c.keys[1], ret)>>
          [] c.name = "KeyUp" ->
                <<KeyCall(c.cb, c.hwnd, "up", c.keys[1], ret)>>
          [] c.name = "Press" ->
                <<KeyCall(c.cb, c.hwnd, "down", c.keys[1], ret),
                  KeyCall(c.cb, c.hwnd, "up", c.keys[1], ret)>>
          [] c.name = "PressHotkey" -> HotkeyCalls(c.cb, c.hwnd, c.keys)
          [] c.name = "Type" /\ c.cb = BackendMessage /\ c.hwnd = 0 ->
                <<[do |-> "sendInputOnce", ev |-> "down", key |-> 65,
                   fail |-> ret]>>
                \o TypeCalls(c.cb, c.hwnd, c.text, 2)
          [] c.name = "Type" -> TypeCalls(c.cb, c.hwnd, c.text, 1)
          [] OTHER -> <<>>

\* What a successful call delivers: the bytes of the key stroke for the
\* keyboard device, the posted message, the keybd_event arguments, or the
\* WScan and DwFlags of the inputs handed to SendInput.
Delivered(s) ==
    CASE s.do = "hid" ->
            [via |-> "SendKey", ev |-> s.ev, key |-> s.key,
             dev |-> keyboardDev,
             arg |-> KeyBuffer([Code |-> ScanCode(s.key),
                                State |-> IF s.ev = "down" THEN KeyStateDown
                                          ELSE KeyStateUp,
                                Information |-> 0])]
      [] s.do = "keybd_event" ->
            [via |-> "keybd_event", ev |-> s.ev, key |-> s.key, dev |-> 0,
             arg |-> <<MapScanCodeToVK(s.key), 0,
                       IF s.ev = "down" THEN 0 ELSE 2, 0>>]
      [] s.do = "sendInputOnce" ->
            [via |-> "SendInput", ev |-> s.ev, key |-> s.key, dev |-> 0,
             arg |-> <<s.key, KEYEVENTF_UNICODE>>]
      [] s.do = "SendInput" ->
            [via |-> "SendInput", ev |-> s.ev, key |-> s.key, dev |-> 0,
             arg |-> <<s.key, KEYEVENTF_UNICODE,
                       s.key, KEYEVENTF_UNICODE + KEYEVENTF_KEYUP>>]
      [] s.do = "post" /\ s.ev = "char" ->
            [via |-> "PostMessage", ev |-> s.ev, key |-> s.key, dev |-> 0,
             arg |-> <<WM_CHAR, s.key, MakeLong(1, 0)>>]
      [] OTHER ->
            [via |-> "PostMessage", ev |-> s.ev, key |-> s.key, dev |-> 0,
             arg |-> <<IF s.ev = "down" THEN WM_KEYDOWN ELSE WM_KEYUP,
                       MapScanCodeToVK(s.key),
                       makeKeyLParam(s.key, s.ev = "up")>>]

\* The errors of a failed call.
DeliveryError(s) ==
    IF s.do = "hid" THEN SendErrors
    ELSE IF s.do = "sendInputOnce" THEN {"SendInput self-test failed"}
    ELSE IF s.do = "SendInput" THEN {"SendInput"}
    ELSE {"ErrPostMessageFailed"}

\* A caller enters a keyboard action; checkReady and checkBackend have
\* returned nil and getBackend() returns the selected backend.  failed
\* counts the delivery calls that failed, at is the position of the last
\* call that returned an error.
KbdCall(c) ==
    /\ kb.pc = "idle"
    /\ c.cb = currentBackend
    /\ kb' = [pc |-> "run", call |-> c, i |-> 1, out |-> <<>>,
              failed |-> 0, at |-> 0, res |-> "nil", once |-> kb.once]
    /\ UNCHANGED <<currentBackend, inputMutex, initMutex, win, log, lastSet,
                   hidVars, procVars, mv, timeout, encIn, encOut>>

\* The next call of the action.  keyboard.KeyDown / KeyUp return an error
\* before posting when the key has no virtual key; keybd_event has no
\* result; a post, a send or a SendInput succeeds or fails.  The self-test
\* of the global Type runs once: it hands SendInput one key-down of "A",
\* and its error is kept and returned by that call and every later one.
KbdStep ==
    /\ kb.pc = "run"
    /\ kb.i <= Len(KbdProgram(kb.call))
    /\ \E s \in {KbdProgram(kb.call)[kb.i]} :
       \E to \in {IF s.fail.to = 0 THEN Len(KbdProgram(kb.call)) + 1
                   ELSE s.fail.to} :
          \/ /\ s.do = "ErrUnsupportedKey"
             /\ kb' = [kb EXCEPT !.res = "ErrUnsupportedKey", !.i = to,
                                 !.at = kb.i]
          \/ /\ s.do = "post" /\ s.ev # "char" /\ MapScanCodeToVK(s.key) = 0
             /\ kb' = [kb EXCEPT !.res = "unsupported key", !.i = to,
                                 !.at = kb.i]
          \/ /\ s.do = "keybd_event"
             /\ kb' = [kb EXCEPT !.out = Append(kb.out, Delivered(s)),
                                 !.i = kb.i + 1]
          \/ /\ s.do = "sendInputOnce" /\ kb.once = "ok"
             /\ kb' = [kb EXCEPT !.i = kb.i + 1]
          \/ /\ s.do = "sendInputOnce" /\ kb.once = "failed"
             /\ kb' = [kb EXCEPT !.res = "SendInput self-test failed",
                                 !.i = to, !.at = kb.i]
          \/ /\ \/ s.do = "hid"
                \/ s.do = "SendInput"
                \/ s.do = "sendInputOnce" /\ kb.once = "new"
                \/ s.do = "post" /\ s.ev = "char"
                \/ s.do = "post" /\ MapScanCodeToVK(s.key) # 0
             /\ \E err \in {"nil"} \cup DeliveryError(s) :
                \E once \in {IF s.do # "sendInputOnce" THEN kb.once
                              ELSE IF err = "nil" THEN "ok" ELSE "failed"} :
                   kb' = IF err = "nil"
                         THEN [kb EXCEPT !.out = Append(kb.out, Delivered(s)),
                                         !.i = kb.i + 1, !.once = once]
                         ELSE [kb EXCEPT !.failed = kb.failed + 1,
                                         !.at = kb.i,
                                         !.i = to, !.once = once,
                                         !.res = IF s.fail.keep THEN err
                                                 ELSE kb.res]
    /\ UNCHANGED <<currentBackend, inputMutex, initMutex, win, log, lastSet,
                   hidVars, procVars, mv, timeout, encIn, encOut>>

\* The action is past its last call: it returns kb.res.
KbdDone ==
    /\ kb.pc = "run"
    /\ kb.i > Len(KbdProgram(kb.call))
    /\ kb' = [kb EXCEPT !.pc = "return"]
    /\ UNCHANGED <<currentBackend, inputMutex, initMutex, win, log, lastSet,
                   hidVars, procVars, mv, timeout, encIn, encOut>>

\* The caller has the result; the next action may start.
KbdReturn ==
    /\ kb.pc = "return"
    /\ kb' = [NoKbd EXCEPT !.once = kb.once]
    /\ UNCHANGED <<currentBackend, inputMutex, initMutex, win, log, lastSet,
                   hidVars, procVars, mv, timeout, encIn, encOut>>

----------------------------------------------------------------------------
(* window and screen: the DPI query and the desktop bounds *)

\* What the operating system answers to the calls of one DPI query:
\* whether GetDpiForWindow exists and what it returns, the device context
\* GetDC returns, and the two values of GetDeviceCaps.
DpiInputs ==
    [fn : {"GetDPI"}, found : BOOLEAN, perWindow : {0, 96, 144},
     hdc : {0, 7}, capsX : {0, 96, 120}, capsY : {0, 96, 120}]

\* window.GetDPI: the per-window query when it exists and answers, else
\* the device context's LOGPIXELSX and LOGPIXELSY, each replaced by 96
\* when zero; the device context is released when it was obtained.
GetDPI(os) ==
    IF os.found /\ os.perWindow # 0
    THEN [x |-> os.perWindow, y |-> os.perWindow, err |-> "nil",
          released |-> 0]
    ELSE IF os.hdc = 0
    THEN [x |-> 96, y |-> 96, err |-> "GetDC failed", released |-> 0]
    ELSE [x |-> IF os.capsX = 0 THEN 96 ELSE os.capsX,
          y |-> IF os.capsY = 0 THEN 96 ELSE os.capsY,
          err |-> "nil", released |-> os.hdc]

\* Window.DPI: the query for the window's handle.
DPI ==
    /\ encOut = NoEnc
    /\ encIn.fn = "GetDPI"
    /\ encOut' = [fn |-> "GetDPI", dpi |-> GetDPI(encIn)]
    /\ UNCHANGED <<currentBackend, inputMutex, initMutex, win, log, lastSet,
                   hidVars, procVars, kb, mv, timeout, encIn>>

----------------------------------------------------------------------------
(* winput: the pointer actions of a window, one call at a time.  The      *)
(* target was checked and getBackend() returned cb; what remains is the   *)
(* sequence of conversions and delivery calls and the return at the       *)
(* first one that fails.                                                  *)

\* The pointer actions with their arguments, the backend getBackend()
\* returns, the screen position of the window's client origin and the
\* position of the cursor when the action starts.  Under the HID backend
\* the actions that move the cursor find it at (130, -30), at or near
\* their target, so that a trajectory has 5 to 20 steps, and Move,
\* MoveRel and Click also go from (500, 500) to a target beyond 16 bits
\* in 40 steps.
PtrInputs ==
    LET fns == {"Move", "MoveRel", "Click", "ClickRight", "ClickMiddle",
                "DoubleClick", "Scroll", "MoveMouseTo", "ClickMouseAt"}
        near == [x |-> 130, y |-> -30]
        far == [x |-> 500, y |-> 500]
        inputs(names, backends, xs, ys, deltas, cursors) ==
            [fn : names, cb : backends, x : xs, y : ys, delta : deltas,
             origin : {[x |-> 100, y |-> -50]}, cursor : cursors]
    IN  inputs(fns, {BackendMessage}, {30, -7, 40000}, {20, 32768},
               {120, -120}, {far, near})
        \cup inputs({"Scroll"}, {BackendHID}, {30, -7, 40000}, {20, 32768},
                    {120, -120}, {far, near})
        \cup inputs(fns \ {"Scroll"}, {BackendHID}, {30, -7}, {20}, {120},
                    {near})
        \cup inputs({"Move", "MoveRel", "Click"}, {BackendHID}, {40000},
                    {32768}, {120}, {far})

\* Variant: the screen position is handed on as a client position.
ScreenToClient_None(o, x, y) == [x |-> x, y |-> y]

\* window.ScreenToClient on a window whose client origin is at o.
ScreenToClient(o, x, y) == [x |-> Sub32(x, o.x), y |-> Sub32(y, o.y)]

\* One call of an action is a record of the errors it can return (errs),
\* what it delivers when it returns nil (out) and what it may have
\* delivered when it returns an error (part).  Query is a call that
\* converts or reads a position and delivers nothing.
Query(do, errs) == [do |-> do, errs |-> errs, out |-> <<>>, part |-> <<>>]

\* acquireMouse seen from its caller: the error of EnsureInit, which is
\* that of Init when no session exists, or "hid backend closed" when the
\* session ended before the read lock was taken.
AcquireMouse ==
    Query("acquireMouse",
          {"ErrLibraryNotFound", "symbols missing", "ErrDriverNotInstalled",
           "no interception devices found", "hid backend closed"})

\* hid.Move(x, y) seen from its caller: acquireMouse, whose error is
\* returned before any stroke, then the trajectory to the screen position
\* (x, y).  The trajectory is not one call: it is MoveCall, the steps of
\* the loop (MoveSelect, MoveStep) with the timer and the user's hand
\* between them, and MoveReturn.
HidMove(x, y) ==
    <<AcquireMouse, [do |-> "hid.Move", x |-> x, y |-> y]>>

\* interception.SendMouse of a stroke that has only a state and a
\* rolling amount (int16 of the delta).
Stroke(state, rolling) ==
    [do |-> "SendMouse", errs |-> SendErrors,
     out |-> <<[via |-> "SendMouse",
                arg |-> MouseBuffer([State |-> state, Flags |-> 0,
                                     Rolling |-> Int16(rolling), X |-> 0,
                                     Y |-> 0, Information |-> 0])]>>,
     part |-> <<>>]

\* mouse.post: one PostMessageW call.
Post(msg, wparam, lparam) ==
    [do |-> "post", errs |-> {"ErrPostMessageFailed"},
     out |-> <<[via |-> "PostMessage", msg |-> msg, wparam |-> wparam,
                lparam |-> lparam]>>,
     part |-> <<>>]

\* Variant: the button goes down before the cursor is moved.
HidClick_DownFirst(x, y) ==
    <<AcquireMouse, Stroke(MouseStateLeftDown, 0)>>
    \o HidMove(x, y)
    \o <<Stroke(MouseStateLeftUp, 0)>>

\* hid.Click: Move, then a second acquisition, button down, button up.
HidClick(x, y) ==
    HidMove(x, y)
    \o <<AcquireMouse,
         Stroke(MouseStateLeftDown, 0),
         Stroke(MouseStateLeftUp, 0)>>

\* The calls of a pointer action for backend a.cb, in order: Window.Move
\* and MoveRel (moveImpl), Click, ClickRight, ClickMiddle, DoubleClick and
\* Scroll, and the global MoveMouseTo and ClickMouseAt, which take a
\* screen position.  The clicks of package mouse are Move, then the
\* button-down and the button-up with the same packed client position,
\* and for DoubleClick WM_LBUTTONDBLCLK and a second button-up after them;
\* the clicks of package hid are Move, a second acquisition and the two
\* button strokes, and DoubleClick is Click twice.  mouse_event has no
\* result.
PtrProgram(a) ==
    LET toScreen == Query("ClientToScreen",
                          {"window is minimized", "ClientToScreen failed"})
        toClient == Query("ScreenToClient",
                          {"window is minimized", "ScreenToClient failed"})
        getCursor == Query("GetCursorPos", {"GetCursorPos failed"})
        s == ClientToScreen(a.origin, a.x, a.y)
        t == [x |-> Add32(a.cursor.x, a.x), y |-> Add32(a.cursor.y, a.y)]
        c == ScreenToClient(a.origin, t.x, t.y)
        hidButton(down, up) ==
            HidMove(s.x, s.y)
            \o <<AcquireMouse, Stroke(down, 0), Stroke(up, 0)>>
        postClick(down, mk, up) ==
            <<Post(WM_MOUSEMOVE, MakeLong(0, 0), makeLParam(a.x, a.y)),
              Post(down, MakeLong(mk, 0), makeLParam(a.x, a.y)),
              Post(up, MakeLong(0, 0), makeLParam(a.x, a.y))>>
        setCursorPos ==
            [do |-> "SetCursorPos", errs |-> {"SetCursorPos failed"},
             out |-> <<[via |-> "SetCursorPos", x |-> a.x, y |-> a.y]>>,
             part |-> <<>>]
        mouseEvent(flags) ==
            [do |-> "mouse_event", errs |-> {},
             out |-> <<[via |-> "mouse_event", arg |-> <<flags, 0, 0, 0, 0>>]>>,
             part |-> <<>>]
    IN  IF a.cb = BackendHID
        THEN CASE a.fn = "Move" -> <<toScreen>> \o HidMove(s.x, s.y)
               [] a.fn = "MoveRel" -> <<getCursor>> \o HidMove(t.x, t.y)
               [] a.fn = "Click" -> <<toScreen>> \o HidClick(s.x, s.y)
               [] a.fn = "ClickRight" ->
                     <<toScreen>>
                     \o hidButton(MouseStateRightDown, MouseStateRightUp)
               [] a.fn = "ClickMiddle" ->
                     <<toScreen>>
                     \o hidButton(MouseStateMiddleDown, MouseStateMiddleUp)
               [] a.fn = "DoubleClick" ->
                     <<toScreen>> \o HidClick(s.x, s.y)
                     \o HidClick(s.x, s.y)
               [] a.fn = "Scroll" ->
                     <<AcquireMouse, Stroke(MouseStateWheel, a.delta)>>
               [] a.fn = "MoveMouseTo" -> HidMove(a.x, a.y)
               [] a.fn = "ClickMouseAt" -> HidClick(a.x, a.y)
        ELSE CASE a.fn = "Move" ->
                     <<Post(WM_MOUSEMOVE, MakeLong(0, 0),
                            makeLParam(a.x, a.y))>>
               [] a.fn = "MoveRel" ->
                     <<getCursor, toClient,
                       Post(WM_MOUSEMOVE, MakeLong(0, 0),
                            makeLParam(c.x, c.y))>>
               [] a.fn = "Click" ->
                     postClick(WM_LBUTTONDOWN, MK_LBUTTON, WM_LBUTTONUP)
               [] a.fn = "ClickRight" ->
                     postClick(WM_RBUTTONDOWN, MK_RBUTTON, WM_RBUTTONUP)
               [] a.fn = "ClickMiddle" ->
                     postClick(WM_MBUTTONDOWN, MK_MBUTTON, WM_MBUTTONUP)
               [] a.fn = "DoubleClick" ->
                     postClick(WM_LBUTTONDOWN, MK_LBUTTON, WM_LBUTTONUP)
                     \o <<Post(WM_LBUTTONDBLCLK, MakeLong(MK_LBUTTON, 0),
                               makeLParam(a.x, a.y)),
                          Post(WM_LBUTTONUP, MakeLong(0, 0),
                               makeLParam(a.x, a.y))>>
               [] a.fn = "Scroll" ->
                     <<toScreen,
                       Post(WM_MOUSEWHEEL, WheelWParam(a.delta),
                            makeLParam(s.x, s.y))>>
               [] a.fn = "MoveMouseTo" -> <<setCursorPos>>
               [] a.fn = "ClickMouseAt" ->
                     <<setCursorPos, mouseEvent(2), mouseEvent(4)>>

\* A caller enters a pointer action.
PtrCall ==
    /\ encOut = NoEnc
    /\ encIn \in PtrInputs
    /\ encOut' = [fn |-> encIn.fn, i |-> 1, out |-> <<>>, res |-> "nil"]
    /\ UNCHANGED <<currentBackend, inputMutex, initMutex, win, log, lastSet,
                   hidVars, procVars, kb, mv, timeout, encIn>>

\* The next call of the action.  A trajectory is entered (MoveCall) with
\* the cursor where the action found it, or where the action's last
\* trajectory left it, and the action waits for MoveReturn.  Any other
\* call returns nil and the action goes on, or it returns one of its
\* errors and the action returns that error.
PtrStep ==
    /\ encIn \in PtrInputs
    /\ encOut.fn = encIn.fn
    /\ encOut.i <= Len(PtrProgram(encIn))
    /\ mv.pc = "idle"
    /\ \E s \in {PtrProgram(encIn)[encOut.i]} :
          IF s.do = "hid.Move"
          THEN LET moved == SelectSeq(encOut.out,
                                      LAMBDA e : e.via = "hid.Move")
                   start == IF moved = <<>> THEN encIn.cursor
                            ELSE moved[Len(moved)].at
               IN  MoveCall(start, [x |-> s.x, y |-> s.y])
          ELSE /\ \E err \in s.errs \cup {"nil"} :
                     encOut' =
                        IF err = "nil"
                        THEN [encOut EXCEPT !.out = encOut.out \o s.out,
                                            !.i = encOut.i + 1]
                        ELSE [encOut EXCEPT !.out = encOut.out \o s.part,
                                            !.res = err,
                                            !.i = Len(PtrProgram(encIn)) + 1]
               /\ UNCHANGED <<currentBackend, inputMutex, initMutex, win,
                              log, lastSet, hidVars, procVars, kb, mv,
                              timeout, encIn>>

\* Move has returned mv.res to its caller.  A pointer action that called
\* it has the trajectory behind it, whole when Move returned nil, with
\* the position it left the cursor at; the action goes on with its next
\* call, or returns Move's error.
MoveReturn ==
    /\ mv.pc = "done"
    /\ mv' = NoMove
    /\ timeout' = FALSE
    /\ encOut' =
          IF encOut = NoEnc THEN encOut
          ELSE [encOut EXCEPT
                  !.out = Append(@, [via |-> "hid.Move", x |-> mv.targetX,
                                     y |-> mv.targetY,
                                     whole |-> (mv.res = "nil"),
                                     at |-> [x |-> mv.curX, y |-> mv.curY]]),
                  !.res = mv.res,
                  !.i = IF mv.res = "nil" THEN @ + 1
                        ELSE Len(PtrProgram(encIn)) + 1]
    /\ UNCHANGED <<currentBackend, inputMutex, initMutex, win, log, lastSet,
                   hidVars, procVars, kb, encIn>>

----------------------------------------------------------------------------
(* screen: the virtual desktop.  A value GetSystemMetrics returns is a    *)
(* uintptr, given here by the two 16-bit words of its low 32 bits;        *)
(* int32(v) reads them as a signed number.                                *)

\* screen.VirtualBounds for the metrics m (x, y, w, h of the desktop).
VirtualBounds(m) ==
    LET x == Join32(m.x.hi, m.x.lo)
        y == Join32(m.y.hi, m.y.lo)
        w == Join32(m.w.hi, m.w.lo)
        h == Join32(m.h.hi, m.h.lo)
    IN  [Left |-> x, Top |-> y, Right |-> Add32(x, w),
         Bottom |-> Add32(y, h)]

\* Variant: the image point is returned as it is.
ImageToVirtual_NoOrigin(imageX, imageY, m) == [x |-> imageX, y |-> imageY]

\* screen.ImageToVirtual for the metrics m.
ImageToVirtual(imageX, imageY, m) ==
    [x |-> Add32(imageX, Join32(m.x.hi, m.x.lo)),
     y |-> Add32(imageY, Join32(m.y.hi, m.y.lo))]

\* A caller reads the desktop bounds and converts an image point, as the
\* multi-monitor test does, on a desktop that does not change in between.
ToVirtual ==
    /\ encOut = NoEnc
    /\ encIn.fn = "ImageToVirtual"
    /\ encOut' = [fn |-> "ImageToVirtual",
                  bounds |-> VirtualBounds(encIn.m),
                  pt |-> ImageToVirtual(encIn.imageX, encIn.imageY, encIn.m)]
    /\ UNCHANGED <<currentBackend, inputMutex, initMutex, win, log, lastSet,
                   hidVars, procVars, kb, mv, timeout, encIn>>

----------------------------------------------------------------------------
(* Specification *)

\* The program before any call: nothing selected, locked or loaded.
CoreInit ==
    /\ currentBackend = BackendMessage
    /\ inputMutex = 0
    /\ initMutex = {}
    /\ ctx = 0
    /\ mouseDev = 0
    /\ keyboardDev = 0
    /\ initialized = FALSE
    /\ dllHandle = 0
    /\ win = "ok"
    /\ env = NoEnv
    /\ created = 0
    /\ destroyed = {}
    /\ closed = FALSE
    /\ log = <<>>
    /\ lastSet = BackendMessage
    /\ pc = [p \in Procs |-> "idle"]
    /\ op = [p \in Procs |-> NoOp]
    /\ cb = [p \in Procs |-> BackendMessage]
    /\ be = [p \in Procs |-> BackendMessage]
    /\ idx = [p \in Procs |-> 0]
    /\ lCtx = [p \in Procs |-> 0]
    /\ lDev = [p \in Procs |-> 0]
    /\ res = [p \in Procs |-> "nil"]
    /\ cause = [p \in Procs |-> "nil"]
    /\ attempted = [p \in Procs |-> FALSE]

\* No hid.Move is running and no encoder has been called.
AuxIdle ==
    /\ mv = NoMove
    /\ timeout = FALSE
    /\ encIn = NoEnc
    /\ encOut = NoEnc
    /\ kb = NoKbd

Init == CoreInit /\ AuxIdle

Next ==
    \/ \E p \in Procs : \E o \in Calls : Lock(p, o)
    \/ \E p \in Procs : CheckReadyStep(p)
    \/ \E p \in Procs : CheckBackendStep(p)
    \/ \E p \in Procs : InitStep(p)
    \/ \E p \in Procs : GetBackendStep(p)
    \/ \E p \in Procs : PostStep(p)
    \/ \E p \in Procs : EnsureInitStep(p)
    \/ \E p \in Procs : EnsureInitInitStep(p)
    \/ \E p \in Procs : AcquireStep(p)
    \/ \E p \in Procs : SendStep(p)
    \/ \E p \in Procs : Unlock(p)
    \/ \E b \in Backends : SetBackend(b)
    \/ HidInit
    \/ HidClose
    \/ WindowChange

Spec == Init /\ [][Next]_vars

\* The public input actions with SetBackend and hid.Close beside them and
\* a window that may change: Next without direct calls of hid.Init.
NextFair ==
    \/ \E p \in Procs : \E o \in Calls : Lock(p, o)
    \/ \E p \in Procs : CheckReadyStep(p)
    \/ \E p \in Procs : CheckBackendStep(p)
    \/ \E p \in Procs : InitStep(p)
    \/ \E p \in Procs : GetBackendStep(p)
    \/ \E p \in Procs : PostStep(p)
    \/ \E p \in Procs : EnsureInitStep(p)
    \/ \E p \in Procs : EnsureInitInitStep(p)
    \/ \E p \in Procs : AcquireStep(p)
    \/ \E p \in Procs : SendStep(p)
    \/ \E p \in Procs : Unlock(p)
    \/ \E b \in Backends : SetBackend(b)
    \/ HidClose
    \/ WindowChange

\* The scheduling the runtime gives: a caller inside an action goes on
\* running, and a caller outside one calls again and waits in
\* inputMutex.Lock(), which hands the mutex to a goroutine that keeps
\* waiting for it.  SetBackend, hid.Close and the window are left free to
\* act or not.
SpecFair ==
    /\ Init
    /\ [][NextFair]_vars
    /\ \A p \in Procs :
          /\ SF_vars(\E o \in Calls : Lock(p, o))
          /\ WF_vars(\/ CheckReadyStep(p) \/ CheckBackendStep(p)
                     \/ InitStep(p) \/ GetBackendStep(p) \/ PostStep(p)
                     \/ EnsureInitStep(p) \/ EnsureInitInitStep(p)
                     \/ AcquireStep(p) \/ SendStep(p) \/ Unlock(p))

\* Callers of the hid package running concurrently with Init and Close.
NextHid ==
    \/ \E p \in Procs : \E o \in HidCalls : HidCall(p, o)
    \/ \E p \in Procs : HidEnsureInit(p)
    \/ \E p \in Procs : HidEnsureInitInit(p)
    \/ \E p \in Procs : HidRLock(p)
    \/ \E p \in Procs : HidStroke(p)
    \/ \E p \in Procs : HidRUnlock(p)
    \/ \E p \in Procs : HidReturn(p)
    \/ HidInit
    \/ HidClose

SpecHid == Init /\ [][NextHid]_vars

\* One hid.Move call after another, each from a start and to a target of
\* the inputs, with the two-second timer running beside it.
NextMove ==
    \/ \E start \in Starts : \E target \in Targets : MoveCall(start, target)
    \/ Deadline
    \/ MoveSelect
    \/ MoveStep
    \/ MoveReturn

SpecMove == Init /\ [][NextMove]_vars

\* hid.Move calls from (500, 500) over distances of 2, 20 and 99 while the
\* user moves the mouse.
NextDisp ==
    \/ \E target \in {[x |-> 502, y |-> 500], [x |-> 520, y |-> 480],
                       [x |-> 599, y |-> 500]} :
          MoveCall([x |-> 500, y |-> 500], target)
    \/ Displace
    \/ Deadline
    \/ MoveSelect
    \/ MoveStep
    \/ MoveReturn

SpecDisp == Init /\ [][NextDisp]_vars

\* The message encoders applied to arguments drawn from the inputs.
InitEnc ==
    /\ CoreInit
    /\ mv = NoMove
    /\ timeout = FALSE
    /\ encIn \in EncInputs
    /\ encOut = NoEnc
    /\ kb = NoKbd

NextEnc ==
    \/ PostMove
    \/ PostScroll

SpecEnc == InitEnc /\ [][NextEnc]_vars

\* The keyboard encoder and the character table applied to inputs.
InitKey ==
    /\ CoreInit
    /\ mv = NoMove
    /\ timeout = FALSE
    /\ encIn \in KeyInputs \cup RuneInputs
    /\ encOut = NoEnc
    /\ kb = NoKbd

NextKey ==
    \/ KeyLParam
    \/ Lookup

SpecKey == InitKey /\ [][NextKey]_vars

\* The driver encoder applied to strokes after the library was loaded.
InitDrv ==
    /\ CoreInit
    /\ mv = NoMove
    /\ timeout = FALSE
    /\ encIn \in MouseStrokes \cup KeyStrokes
    /\ encOut = NoEnc
    /\ kb = NoKbd

NextDrv ==
    \/ DrvLoad
    \/ DrvSend

SpecDrv == InitDrv /\ [][NextDrv]_vars

\* The keyboard actions one after another on a live driver session: the
\* state hid.Init leaves in the environment with mice 3, 5 and keyboards
\* 1, 20.
InitKbd ==
    /\ currentBackend \in Backends
    /\ inputMutex = 0
    /\ initMutex = {}
    /\ ctx = 1
    /\ mouseDev = 3
    /\ keyboardDev = 1
    /\ initialized = TRUE
    /\ dllHandle = 1
    /\ win = "ok"
    /\ env = [library |-> "ok", driver |-> TRUE, mice |-> {3, 5},
              kbds |-> {1, 20}, destroy |-> TRUE]
    /\ created = 1
    /\ destroyed = {}
    /\ closed = FALSE
    /\ log = <<>>
    /\ lastSet = currentBackend
    /\ pc = [p \in Procs |-> "idle"]
    /\ op = [p \in Procs |-> NoOp]
    /\ cb = [p \in Procs |-> BackendMessage]
    /\ be = [p \in Procs |-> BackendMessage]
    /\ idx = [p \in Procs |-> 0]
    /\ lCtx = [p \in Procs |-> 0]
    /\ lDev = [p \in Procs |-> 0]
    /\ res = [p \in Procs |-> "nil"]
    /\ cause = [p \in Procs |-> "nil"]
    /\ attempted = [p \in Procs |-> FALSE]
    /\ AuxIdle

NextKbd ==
    \/ \E c \in KbdCalls : KbdCall(c)
    \/ KbdStep
    \/ KbdDone
    \/ KbdReturn

SpecKbd == InitKbd /\ [][NextKbd]_vars

\* The queries of the window and screen packages applied to what the
\* operating system can answer, and the pointer actions that use them.
\* The caller of a pointer action holds inputMutex until it returns, so no
\* other action of winput runs inside it; a trajectory inside it is the
\* loop of hid.Move, which sleeps after every stroke: the two-second timer
\* can fire and the user can move the cursor between any two steps.
\* The desktops of the image conversion have their origin at (0, 0), at
\* (-1920, -1080) and at (1920, 0).
InitRes ==
    /\ CoreInit
    /\ mv = NoMove
    /\ timeout = FALSE
    /\ encIn \in DpiInputs \cup PtrInputs \cup
          [fn : {"ImageToVirtual"},
           imageX : {0, 100, -5, 2147483647}, imageY : {100, 0},
           m : [x : {MakeLong(0, 0), MakeLong(63616, 65535),
                     MakeLong(1920, 0)},
                y : {MakeLong(0, 0), MakeLong(64456, 65535)},
                w : {MakeLong(3840, 0)}, h : {MakeLong(2160, 0)}]]
    /\ encOut = NoEnc
    /\ kb = NoKbd

NextRes ==
    \/ DPI
    \/ PtrCall
    \/ PtrStep
    \/ Displace
    \/ Deadline
    \/ MoveSelect
    \/ MoveStep
    \/ MoveReturn
    \/ ToVirtual

SpecRes == InitRes /\ [][NextRes]_vars

TypeOK ==
    /\ currentBackend \in Backends
    /\ inputMutex \in Procs \cup {0}
    /\ initMutex \subseteq Procs
    /\ initialized \in BOOLEAN
    /\ win \in WinStates

----------------------------------------------------------------------------
(* Properties *)

\* The callers that are between inputMutex.Lock() and Unlock().
InAction == {p \in Procs : pc[p] # "idle"}

\* The positions of the log that hold events of caller p's action.
EventsOf(p) == {i \in 1..Len(log) : log[i].act = p}

\* C1: at most one caller is between acquiring and releasing the operation
\* lock, and the events of one action are contiguous in the delivery
\* order: no event of another action lies between two events of an action.
C1_Serialized ==
    /\ Cardinality(InAction) <= 1
    /\ \A i, k \in 1..Len(log) :
          (i < k /\ log[i].act = log[k].act)
              => \A j \in i..k : log[j].act = log[i].act

\* A caller is about to return from a hotkey whose four events (Shift
\* down, key down, key up, Shift up) were all delivered.
C1_Witness ==
    \E p \in Procs :
        /\ pc[p] = "Unlock"
        /\ op[p].name = "PressHotkey"
        /\ res[p] = "nil"
        /\ Cardinality(EventsOf(p)) = 4

\* C2: all events of one action are delivered through one backend.
C2_OneBackendPerAction ==
    \A i, j \in 1..Len(log) :
        log[i].act = log[j].act => log[i].enc = log[j].enc

\* C3: every event is delivered through the backend that checkBackend read
\* and found ready in the same action, and an action whose readiness check
\* failed has delivered nothing.
C3_DeliversThroughCheckedBackend ==
    /\ \A i \in 1..Len(log) : log[i].enc = log[i].chk
    /\ \A p \in Procs :
          (pc[p] = "Unlock"
           /\ res[p] \in {"ErrDLLLoadFailed", "ErrDriverNotInstalled"})
              => EventsOf(p) = {}

\* C4: a window-targeted action runs checkReady before anything else; a
\* dead handle gives ErrWindowGone, else a hidden or minimized window gives
\* ErrWindowNotVisible, and then the action returns without delivering an
\* event and without attempting driver initialization.
C4_TargetCheckedFirst ==
    /\ [](\A p \in Procs :
            /\ pc[p] = "checkReady" => EventsOf(p) = {} /\ ~attempted[p]
            /\ (pc[p] = "Unlock"
                /\ res[p] \in {"ErrWindowGone", "ErrWindowNotVisible"})
                  => EventsOf(p) = {} /\ ~attempted[p])
    /\ [][\A p \in Procs :
            /\ (pc[p] = "idle" /\ pc'[p] # "idle" /\ op'[p].hwnd # 0)
                  => pc'[p] = "checkReady"
            /\ (pc[p] = "checkReady" /\ pc'[p] # "checkReady")
                  => /\ UNCHANGED <<hidVars, log>>
                     /\ IF win = "gone"
                        THEN pc'[p] = "Unlock" /\ res'[p] = "ErrWindowGone"
                        ELSE IF win \in {"hidden", "minimized"}
                        THEN /\ pc'[p] = "Unlock"
                             /\ res'[p] = "ErrWindowNotVisible"
                        ELSE pc'[p] = "checkBackend"]_vars

\* With the driver backend selected and no session, a window action finds
\* its window hidden or minimized and is about to return.
C4_Witness ==
    \E p \in Procs :
        /\ pc[p] = "Unlock"
        /\ res[p] = "ErrWindowNotVisible"
        /\ currentBackend = BackendHID
        /\ ~initialized

\* C5: SetBackend never touches the driver session, and a caller of the
\* winput API runs hid.Init only in an input action in which it read the
\* HID backend as selected (checkBackend for its own Init, getBackend for
\* the Init of EnsureInit); nothing else creates a session for it.
C5_LazyInitOnlyUnderHID ==
    [][/\ (currentBackend' # currentBackend \/ lastSet' # lastSet)
            => UNCHANGED hidVars
       /\ \A p \in Procs :
            /\ (pc[p] = "Init" /\ pc'[p] # "Init") => cb[p] = BackendHID
            /\ (pc[p] = "EnsureInit_Init" /\ pc'[p] # "EnsureInit_Init")
                  => be[p] = BackendHID
            /\ (~attempted[p] /\ attempted'[p])
                  => pc[p] \in {"Init", "EnsureInit_Init"}
       /\ (procVars' # procVars
           /\ <<dllHandle, created, initialized>>
                  # <<dllHandle', created', initialized'>>)
            => \E p \in Procs : pc[p] \in {"Init", "EnsureInit_Init"}
                                /\ pc'[p] # pc[p]]_vars

\* SetBackend(BackendHID) was called, an action is about to run hid.Init,
\* and so far nothing was loaded or created.
C5_Witness ==
    /\ lastSet = BackendHID
    /\ ~initialized /\ dllHandle = 0 /\ created = 0
    /\ \E p \in Procs : pc[p] = "Init" /\ cb[p] = BackendHID

\* C6: the selected backend is the argument of the most recent SetBackend
\* call (BackendMessage before the first), whatever the actions did.
C6_BackendIsLastSet == currentBackend = lastSet

\* An action failed because hid.Init failed, and the driver backend is
\* still the selected one.
C6_Witness ==
    /\ currentBackend = BackendHID
    /\ \E p \in Procs :
          /\ pc[p] = "Unlock"
          /\ res[p] \in {"ErrDLLLoadFailed", "ErrDriverNotInstalled"}

\* C7: an action that fails in checkBackend reports the three
\* initialization failures with three different error kinds: a load
\* failure as ErrDLLLoadFailed, a missing context as ErrDriverNotInstalled
\* and a probe without devices as a kind of its own.
C7_ThreeErrorKinds ==
    \A p \in Procs :
        (pc[p] = "Unlock" /\ res[p] # cause[p])
            => /\ cause[p] \in {"ErrLibraryNotFound", "symbols missing"}
                    => res[p] = "ErrDLLLoadFailed"
               /\ cause[p] = "ErrDriverNotInstalled"
                    => res[p] = "ErrDriverNotInstalled"
               /\ cause[p] = "no interception devices found"
                    => res[p] \notin {"ErrDLLLoadFailed",
                                      "ErrDriverNotInstalled"}

\* C8: a session is initialized only with both a mouse and a keyboard
\* device, so no stroke goes to device 0.
C8_BothDevicesFound ==
    /\ initialized => mouseDev # 0 /\ keyboardDev # 0
    /\ \A p \in Procs : pc[p] = "send" => lDev[p] # 0
    /\ \A i \in 1..Len(log) : log[i].enc = BackendHID => log[i].dev # 0

\* The first index in 1..MaxInterceptionDevices that belongs to S, or 0.
FirstIn(S) ==
    LET R == S \cap (1..MaxInterceptionDevices)
    IN  IF R = {} THEN 0 ELSE CHOOSE i \in R : \A j \in R : i <= j

\* C9: while the session stays initialized its context handle and device
\* ids do not change, and a new session takes a fresh handle and the ids
\* its own probe found.
C9_SessionImmutable ==
    [][/\ (initialized /\ initialized')
            => /\ ctx' = ctx
               /\ mouseDev' = mouseDev
               /\ keyboardDev' = keyboardDev
       /\ (~initialized /\ initialized')
            => /\ mouseDev' = FirstIn(env'.mice)
               /\ keyboardDev' = FirstIn(env'.kbds)
               /\ ctx' # 0
               /\ ctx' \notin destroyed]_vars

\* A session exists that was created after a Close.
C9_Witness ==
    /\ initialized
    /\ closed

\* C10: only Close ends a session; it destroys the session's context
\* once, clears initialized, the handle and both device ids and unloads
\* the library; Close without a session changes nothing.
C10_CloseTearsDown ==
    [][/\ (initialized /\ ~initialized')
            => /\ ctx \notin destroyed
               /\ destroyed' = destroyed \cup {ctx}
               /\ closed'
               /\ ctx' = 0 /\ mouseDev' = 0 /\ keyboardDev' = 0
               /\ dllHandle' = 0
               /\ UNCHANGED <<procVars, log, currentBackend, inputMutex>>
       /\ initialized => ctx # 0 /\ dllHandle # 0
       /\ (HidClose /\ ~initialized) => UNCHANGED vars]_vars

----------------------------------------------------------------------------
(* Properties of the hid operations called concurrently (SpecHid) *)

\* The operations that acquire the keyboard; the others acquire the mouse.
KeyboardOps == {"hid.KeyDown", "hid.KeyUp", "hid.Press"}

\* C11: at most one driver context exists at a time (contexts created
\* minus contexts destroyed is at most 1), and all callers that hold
\* handles at the same time hold the one live context and the session's
\* device id for their device kind.
C11_SingleSharedSession ==
    /\ created - Cardinality(destroyed) <= 1
    /\ \A p \in initMutex :
          /\ initialized
          /\ lCtx[p] = ctx
          /\ ctx # 0
          /\ lDev[p] = IF op[p].name \in KeyboardOps THEN keyboardDev
                       ELSE mouseDev
    /\ \A p, q \in initMutex : lCtx[p] = lCtx[q]

\* C12: every stroke is sent on the live context, one that has not been
\* destroyed at the moment of sending, and while a caller holds the
\* handles it acquired Close does not take the session down.
C12_CloseWaitsForOperations ==
    [][/\ \A p \in Procs :
            (pc[p] = "hid_run" /\ Item(p).k = "stroke"
             /\ (idx'[p] # idx[p] \/ pc'[p] # pc[p]))
                => /\ lCtx[p] # 0
                   /\ lCtx[p] = ctx
                   /\ lCtx[p] \notin destroyed
       /\ initMutex # {}
            => /\ initialized /\ initialized'
               /\ ctx' = ctx
               /\ destroyed' = destroyed]_vars

\* A caller has sent the button-down stroke of a click and still holds its
\* handles, in a session created after a Close that made the other
\* caller's acquisition fail with "hid backend closed".
C12_Witness ==
    \E p, q \in Procs :
        /\ op[p].name = "hid.Click"
        /\ pc[p] = "hid_run"
        /\ idx[p] = 7
        /\ p \in initMutex
        /\ pc[q] = "hid_return"
        /\ res[q] = "hid backend closed"
        /\ closed

\* C13: once Close has ended the session, no input operation creates a
\* new one: the Init inside an operation's EnsureInit leaves the backend
\* uninitialized.
C13_NoOperationAfterClose ==
    [][\A p \in Procs :
          (closed /\ ~initialized /\ pc[p] = "hid_Init"
           /\ pc'[p] # pc[p])
              => ~initialized']_vars

----------------------------------------------------------------------------
(* Properties of the trajectory (SpecMove) *)

\* Move has read the cursor position and computed its step count.
MoveStarted == mv.i >= 1

\* Move has returned nil.
MoveSucceeded == mv.pc = "done" /\ mv.res = "nil"

\* The Chebyshev distance between the start and the target.
Chebyshev ==
    LET ax == IF mv.targetX >= mv.cx THEN mv.targetX - mv.cx
              ELSE mv.cx - mv.targetX
        ay == IF mv.targetY >= mv.cy THEN mv.targetY - mv.cy
              ELSE mv.cy - mv.targetY
    IN  IF ax > ay THEN ax ELSE ay

\* C14: the deltas injected by a successful Move sum to exactly
\* (targetX - startX, targetY - startY).
C14_DeltasSumToTarget ==
    MoveSucceeded
        => /\ mv.sumX = mv.targetX - mv.cx
           /\ mv.sumY = mv.targetY - mv.cy

\* C15: the step count is max(5, d/5) for d < 100, 20 for 100 <= d < 500,
\* 30 for 500 <= d < 1000 and 40 for d >= 1000, d the Chebyshev distance
\* between start and target, and Move never injects more strokes than
\* that.
C15_StepPolicy ==
    MoveStarted
        => /\ mv.steps =
                 IF Chebyshev < 100
                 THEN (IF Chebyshev \div 5 > 5 THEN Chebyshev \div 5 ELSE 5)
                 ELSE IF Chebyshev < 500 THEN 20
                 ELSE IF Chebyshev < 1000 THEN 30
                 ELSE 40
           /\ mv.sent <= mv.steps

\* A Move over a distance of 1000 returned nil after a stroke in each of
\* its 40 steps.
C15_Witness ==
    /\ MoveSucceeded
    /\ Chebyshev = 1000
    /\ mv.steps = 40
    /\ mv.sent = 40

\* The movement from rest at (500,500) to (520,480).
Scenario ==
    /\ MoveStarted
    /\ mv.cx = 500 /\ mv.cy = 500
    /\ mv.targetX = 520 /\ mv.targetY = 480

\* C16 as stated: the movement from (500,500) to (520,480) has distance
\* 20, uses 20 steps and injects deltas that sum to (20, -20).
C16_ScenarioTwentySteps ==
    Scenario
        => /\ Chebyshev = 20
           /\ mv.steps = 20
           /\ (MoveSucceeded => mv.sumX = 20 /\ mv.sumY = -20)

\* C16, amended: the movement from (500,500) to (520,480) has distance
\* 20, uses 5 steps (20/5 = 4, raised to the floor of 5) and injects
\* deltas that sum to exactly (20, -20).
C16_ScenarioFiveSteps ==
    Scenario
        => /\ Chebyshev = 20
           /\ mv.steps = 5
           /\ (MoveSucceeded => mv.sumX = 20 /\ mv.sumY = -20)

\* The scenario's Move returned nil with the cursor on (520,480) after a
\* stroke in each of its five steps.
C16_Witness ==
    /\ Scenario
    /\ MoveSucceeded
    /\ mv.sent = 5
    /\ mv.curX = 520 /\ mv.curY = 480

\* C17: the deadline is looked at before every step, and once it has
\* passed Move injects no further stroke and does not return nil.
C17_DeadlineBeforeEveryStep ==
    [][(timeout /\ mv.pc \in {"loop", "step"} /\ mv' # mv)
          => /\ mv'.sent = mv.sent
             /\ ~(mv'.pc = "done" /\ mv'.res = "nil")]_vars

\* C18: after a Move that returned nil the cursor is within 5 pixels of
\* the target on each axis.
C18_WithinFivePixels ==
    MoveSucceeded
        => /\ mv.curX >= mv.targetX - 5 /\ mv.curX <= mv.targetX + 5
           /\ mv.curY >= mv.targetY - 5 /\ mv.curY <= mv.targetY + 5

----------------------------------------------------------------------------
(* Properties of the message parameters (SpecEnc) *)

\* How the receiver of a mouse message reads a position out of lparam and
\* the wheel delta out of wparam: each word as a signed 16-bit value.
Unpack(lp) == [x |-> Int16(lp.lo), y |-> Int16(lp.hi)]
WheelDelta(wp) == Int16(wp.hi)

\* v limited to [-32768, 32767].
Clamp16(v) == IF v > 32767 THEN 32767 ELSE IF v < -32768 THEN -32768 ELSE v

\* C19: the position parameter holds x in its low word and y in its high
\* word; unpacking gives back (x, y) when both are in [-32768, 32767],
\* and a coordinate outside is clamped to the nearer bound, never wrapped.
C19_PackClampsAndRoundTrips ==
    (encOut # NoEnc /\ encOut.fn = "Move")
        => /\ encOut.lparam.lo \in 0..65535
           /\ encOut.lparam.hi \in 0..65535
           /\ Unpack(encOut.lparam).x = Clamp16(encIn.x)
           /\ Unpack(encOut.lparam).y = Clamp16(encIn.y)

\* x = 40000 was packed and reads back as 32767, y = -40000 as -32768.
C19_Witness ==
    /\ encOut # NoEnc
    /\ encOut.fn = "Move"
    /\ encIn.x = 40000
    /\ encIn.y = -40000
    /\ Unpack(encOut.lparam) = [x |-> 32767, y |-> -32768]

\* C20: Scroll posts WM_MOUSEWHEEL with a wparam whose low word is 0 and
\* whose high word is the delta as a signed 16-bit value: a delta in
\* [-32768, 32767] is read back unchanged, 120 as 120.
C20_WheelDeltaInHighWord ==
    (encOut # NoEnc /\ encOut.fn = "Scroll" /\ encOut.err = "nil")
        => /\ encOut.msg = WM_MOUSEWHEEL
           /\ encOut.wparam.lo = 0
           /\ encOut.wparam.hi \in 0..65535
           /\ (encIn.delta \in -32768..32767
                 => WheelDelta(encOut.wparam) = encIn.delta)
           /\ (encIn.delta = 120 => encOut.wparam.hi = 120)

\* A scroll by -120 was posted; its high word reads back as -120.
C20_Witness ==
    /\ encOut # NoEnc
    /\ encOut.fn = "Scroll"
    /\ encOut.err = "nil"
    /\ encIn.delta = -120
    /\ encOut.wparam.hi = 65416
    /\ WheelDelta(encOut.wparam) = -120

\* The keys of the extended-key allow-list: the navigation and editing
\* block, the right-side modifiers, numeric lock and numpad divide.
ExtendedAllowList ==
    {"KeyInsert", "KeyDelete", "KeyHome", "KeyEnd", "KeyPageUp",
     "KeyPageDown", "KeyArrowUp", "KeyArrowDown", "KeyLeft", "KeyRight",
     "KeyRightCtrl", "KeyRightAlt", "KeyNumLock", "KeyDivide"}

\* C21: for every key and both directions the keyboard message parameter
\* has repeat count 1 in its low bits, the scan code in bits 16-23, bit 24
\* set exactly when the key is in the extended-key allow-list, bits 30 and
\* 31 both 0 for key-down and both 1 for key-up, and no other bit set.
C21_KeyParameterBits ==
    encOut.fn = "makeKeyLParam" =>
        LET lo == encOut.lparam.lo
            hi == encOut.lparam.hi
        IN  /\ lo = 1
            /\ hi % 256 = KeyCode[encIn.name]
            /\ ((hi \div 256) % 2 = 1) <=> (encIn.name \in ExtendedAllowList)
            /\ (hi \div 512) % 32 = 0
            /\ hi \div 16384 = (IF encIn.isUp THEN 3 ELSE 0)

\* The scan codes of the letters a to z on the keyboard layout keys.go
\* describes.
LetterScanCodes ==
    <<30, 48, 46, 32, 18, 33, 34, 35, 23, 36, 37, 38, 50,
      49, 24, 25, 16, 19, 31, 20, 22, 47, 17, 45, 21, 44>>

\* C29: for every ASCII letter the lowercase character resolves to the
\* letter's scan code with shift = false and the uppercase character to the
\* same scan code with shift = true; 'a' gives 0x1E without Shift and 'A'
\* gives 0x1E with Shift.
C29_LettersResolve ==
    encOut.fn = "LookupKey" =>
        /\ encIn.r \in 97..122 =>
               encOut.key = [Code |-> LetterScanCodes[encIn.r - 96],
                             Shifted |-> FALSE, ok |-> TRUE]
        /\ encIn.r \in 65..90 =>
               encOut.key = [Code |-> LetterScanCodes[encIn.r - 64],
                             Shifted |-> TRUE, ok |-> TRUE]
        /\ encIn.r = 97 => encOut.key.Code = 30
        /\ encIn.r = 65 => encOut.key.Code = 30

\* 'A' was looked up and came back as scan code 0x1E with Shift.
C29_Witness ==
    /\ encOut.fn = "LookupKey"
    /\ encIn.r = 65
    /\ encOut.key = [Code |-> 30, Shifted |-> TRUE, ok |-> TRUE]

\* The 16-bit word a buffer holds at a byte offset, little-endian, and the
\* 32-bit value at an offset read as a signed number.
Word(buf, off) == buf[off + 1] + 256 * buf[off + 2]
Long(buf, off) == Join32(Word(buf, off + 2), Word(buf, off))

\* A mouse stroke went through SendMouse to the driver.
MouseEncoded == encOut.fn = "Send" /\ encIn.fn = "mouse" /\ encOut.buf # <<>>

\* C22: the driver encoder writes every field of a mouse stroke at a fixed
\* byte offset, little-endian: state at bytes 0-1, flags at 2-3, rolling at
\* 4-5, two padding bytes, x at 8-11, y at 12-15, information at 16-19;
\* decoding the buffer at these offsets returns exactly the encoded fields.
C22_MouseStrokeLayout ==
    MouseEncoded =>
        LET b == encOut.buf
        IN  /\ Len(b) = 20
            /\ \A i \in 1..Len(b) : b[i] \in 0..255
            /\ Word(b, 0) = encIn.State
            /\ Word(b, 2) = encIn.Flags
            /\ Int16(Word(b, 4)) = encIn.Rolling
            /\ Word(b, 6) = 0
            /\ Long(b, 8) = encIn.X
            /\ Long(b, 12) = encIn.Y
            /\ Long(b, 16) = encIn.Information

\* The stroke state=1, flags=0, rolling=-5, x=10, y=-10, information=0
\* was encoded: bytes 01 00 | 00 00 | FB FF | 00 00 | 0A 00 00 00 |
\* F6 FF FF FF | 00 00 00 00.
C22_Witness ==
    /\ MouseEncoded
    /\ encIn.State = 1 /\ encIn.Flags = 0 /\ encIn.Rolling = -5
    /\ encIn.X = 10 /\ encIn.Y = -10 /\ encIn.Information = 0
    /\ encOut.buf = <<1, 0, 0, 0, 251, 255, 0, 0, 10, 0, 0, 0,
                      246, 255, 255, 255, 0, 0, 0, 0>>

\* C23: the stroke buffer size is validated against the driver's expected
\* stroke size when the driver is loaded: if they differ loading fails, so
\* no stroke is ever sent with a buffer whose size differs from the size
\* the driver expects, and no send reports a size mismatch.
C23_SizeValidatedAtLoad ==
    /\ (encOut.fn = "Load" /\ encIn.expect # MouseOffsets.length)
           => encOut.err # "nil"
    /\ MouseEncoded => Len(encOut.buf) = encIn.expect
    /\ encOut.fn = "Send"
           => encOut.err \in {"nil", "ErrSendFailed", "syscall.Errno",
                              "interception_send missing"}

\* A keyboard action is about to hand its result to the caller.
Returning(name) == kb.pc = "return" /\ kb.call.name = name

\* The key events of what an action delivered, without their encoding.
KeyEvents(out) == [j \in 1..Len(out) |-> [ev |-> out[j].ev, key |-> out[j].key]]

\* C24: no failure is swallowed: when a delivery call made inside a public
\* action failed, the action returns a non-nil error.
C24_NoFailureSwallowed ==
    (kb.pc = "return" /\ kb.failed > 0) => kb.res # "nil"

\* The error kinds winput declares, with the post failure its
\* documentation lists among them.
Taxonomy ==
    {"ErrWindowNotFound", "ErrWindowGone", "ErrWindowNotVisible",
     "ErrUnsupportedKey", "ErrBackendUnavailable", "ErrDriverNotInstalled",
     "ErrDLLLoadFailed", "ErrPermissionDenied", "ErrPostMessageFailed"}

\* C25: every non-nil error a public input action returns is, or wraps,
\* one of the declared error kinds, whichever backend is active.
C25_ErrorsInTaxonomy ==
    kb.pc = "return" => kb.res \in Taxonomy \cup {"nil"}

\* C26: when PressHotkey(k1..kn) succeeds it has delivered the key-downs
\* in argument order followed by the key-ups in reverse order, one down
\* and one up per key, every down before every up.
C26_HotkeyOrder ==
    (Returning("PressHotkey") /\ kb.res = "nil") =>
        LET keys == kb.call.keys
            n == Len(keys)
        IN  /\ Len(kb.out) = 2 * n
            /\ \A j \in 1..n :
                  /\ KeyEvents(kb.out)[j] = [ev |-> "down", key |-> keys[j]]
                  /\ KeyEvents(kb.out)[n + j] =
                         [ev |-> "up", key |-> keys[n + 1 - j]]

\* A hotkey of three keys returned nil after its six events.
C26_Witness ==
    /\ Returning("PressHotkey")
    /\ kb.res = "nil"
    /\ kb.call.keys = <<KeyCtrl, KeyShift, KeyA>>
    /\ Len(kb.out) = 6

\* C27: when the i-th key-down of PressHotkey fails, the action returns
\* that error without delivering any key-up: exactly the downs of keys
\* 1..i-1 were delivered, so these keys stay pressed.
C27_PartialHotkeyLeavesKeysDown ==
    (Returning("PressHotkey") /\ kb.at \in 1..Len(kb.call.keys)) =>
        /\ kb.res # "nil"
        /\ Len(kb.out) = kb.at - 1
        /\ \A j \in 1..Len(kb.out) :
              KeyEvents(kb.out)[j] = [ev |-> "down", key |-> kb.call.keys[j]]

\* The third key-down of Ctrl+Shift+A failed: Ctrl and Shift went down and
\* nothing was released.
C27_Witness ==
    /\ Returning("PressHotkey")
    /\ kb.call.keys = <<KeyCtrl, KeyShift, KeyA>>
    /\ kb.at = 3
    /\ kb.res # "nil"
    /\ KeyEvents(kb.out) = <<[ev |-> "down", key |-> KeyCtrl],
                             [ev |-> "down", key |-> KeyShift]>>

\* The key events typing one character takes: the key's down and up,
\* between Shift-down and Shift-up when the character requires Shift.
Typing(r) ==
    LET k == LookupKey(r)
        press == <<[ev |-> "down", key |-> k.Code], [ev |-> "up", key |-> k.Code]>>
    IN  IF k.Shifted
        THEN <<[ev |-> "down", key |-> KeyShift]>> \o press
             \o <<[ev |-> "up", key |-> KeyShift]>>
        ELSE press

RECURSIVE TypingAll(_)
TypingAll(text) ==
    IF text = <<>> THEN <<>> ELSE Typing(Head(text)) \o TypingAll(Tail(text))

\* C28: for every character that requires Shift, Type delivers exactly
\* Shift-down, key-down, key-up, Shift-up in that order, and for a
\* character that does not require Shift only key-down, key-up; Shift is
\* never down when the next character starts.
C28_TypeShiftSequence ==
    ( /\ Returning("Type")
      /\ kb.res = "nil"
      /\ \A j \in 1..Len(kb.call.text) : LookupKey(kb.call.text[j]).ok )
        => KeyEvents(kb.out) = TypingAll(kb.call.text)

\* C30: under the HID backend a scan code is passed through unchanged:
\* KeyDown(k) sends exactly one key stroke to the keyboard device with code
\* k and state down, and KeyUp(k) exactly one with code k and state up; a
\* failed send delivers nothing.
C30_ScanCodePassedThrough ==
    \A name \in {"KeyDown", "KeyUp"} :
        (Returning(name) /\ kb.call.cb = BackendHID) =>
            IF kb.res = "nil"
            THEN /\ Len(kb.out) = 1
                 /\ kb.out[1].via = "SendKey"
                 /\ kb.out[1].dev = keyboardDev
                 /\ Len(kb.out[1].arg) = 8
                 /\ Word(kb.out[1].arg, 0) = kb.call.keys[1]
                 /\ Word(kb.out[1].arg, 2) =
                        (IF name = "KeyDown" THEN 0 ELSE 1)
                 /\ Long(kb.out[1].arg, 4) = 0
            ELSE kb.out = <<>>

\* KeyDown(KeyDelete) under the HID backend returned nil after the stroke
\* 53 00 | 00 00 | 00 00 00 00 went to the keyboard device.
C30_Witness ==
    /\ Returning("KeyDown")
    /\ kb.call.cb = BackendHID
    /\ kb.call.keys = <<KeyDelete>>
    /\ kb.res = "nil"
    /\ kb.out[1].arg = <<83, 0, 0, 0, 0, 0, 0, 0>>

\* C31: a DPI query that got no real value for an axis from any tier (the
\* per-window query is missing or answered 0, and the device context is
\* missing or its value for the axis is 0) and returns 96 for that axis
\* returns a non-nil error with it.
C31_DefaultOnlyWithError ==
    encOut.fn = "GetDPI" =>
        LET noWindow == ~encIn.found \/ encIn.perWindow = 0
            noX == noWindow /\ (encIn.hdc = 0 \/ encIn.capsX = 0)
            noY == noWindow /\ (encIn.hdc = 0 \/ encIn.capsY = 0)
        IN  /\ (noX /\ encOut.dpi.x = 96) => encOut.dpi.err # "nil"
            /\ (noY /\ encOut.dpi.y = 96) => encOut.dpi.err # "nil"

\* A pointer action has returned.
PtrReturned(fn) ==
    encOut.fn = fn /\ encOut.i > Len(PtrProgram(encIn))

\* Where the system applies a delivered wheel event: a posted message at
\* the position its lparam carries; a driver stroke, which carries no
\* position, at the cursor, which Scroll has not moved.
WheelPosition(e) ==
    IF e.via = "PostMessage" THEN Unpack(e.lparam) ELSE encIn.cursor

\* C32: Window.Scroll(x, y, delta) that returned nil delivered one wheel
\* event, and the event takes effect at the screen position of client
\* point (x, y) (as far as 16 bits hold it), under either backend.
C32_ScrollAtClientPoint ==
    (PtrReturned("Scroll") /\ encOut.res = "nil") =>
        /\ Len(encOut.out) = 1
        /\ \E s \in {ClientToScreen(encIn.origin, encIn.x, encIn.y)} :
              WheelPosition(encOut.out[1]) =
                  [x |-> Clamp16(s.x), y |-> Clamp16(s.y)]

\* C33: ImageToVirtual(imageX, imageY) is the image point displaced by the
\* origin of the virtual desktop, (VirtualBounds().Left + imageX,
\* VirtualBounds().Top + imageY) in int32 arithmetic, also when the origin
\* is negative.
C33_ImageToVirtual ==
    encOut.fn = "ImageToVirtual" =>
        /\ encOut.pt.x = Add32(encOut.bounds.Left, encIn.imageX)
        /\ encOut.pt.y = Add32(encOut.bounds.Top, encIn.imageY)

\* The image point (100, 100) on a desktop whose origin is (-1920, -1080)
\* became (-1820, -980).
C33_Witness ==
    /\ encOut.fn = "ImageToVirtual"
    /\ encIn.imageX = 100 /\ encIn.imageY = 100
    /\ encOut.bounds.Left = -1920 /\ encOut.bounds.Top = -1080
    /\ encOut.bounds.Right = 1920 /\ encOut.bounds.Bottom = 1080
    /\ encOut.pt = [x |-> -1820, y |-> -980]

\* C34: a caller outside an action holds neither inputMutex nor the read
\* side of initMutex, whichever way its action returned, and a read lock
\* is held only by the holder of inputMutex; and under fair scheduling a
\* caller waiting for inputMutex acquires it, whatever SetBackend and
\* hid.Close do in between.
C34_LocksReleasedAndAcquired ==
    /\ [](\A p \in Procs :
            /\ pc[p] = "idle" => inputMutex # p /\ p \notin initMutex
            /\ p \in initMutex => inputMutex = p)
    /\ \A p \in Procs : (pc[p] = "idle") ~> (inputMutex = p)

\* A caller waits while the holder of inputMutex is about to return an
\* error of the driver path, after a hid.Close.
C34_Witness ==
    \E p \in Procs : \E q \in Procs \ {p} :
        /\ inputMutex = p
        /\ pc[p] = "Unlock"
        /\ res[p] = "hid backend closed"
        /\ closed
        /\ pc[q] = "idle"

\* C35: a step i of n of hid.Move that injects a stroke injects the point
\* of the line for step i minus the position the cursor has at that step,
\* plus an offset of -1, 0 or 1 per axis when i < n - 2 and nothing
\* otherwise; the stroke is never zero and never a residual below 3 on
\* both axes in the last five steps; so the cursor is on the line (up to
\* the offset) after the stroke, wherever it was moved to before.  A step
\* that injects nothing and returns no error is one whose residual was
\* left out or whose delta was zero.
C35_StepInjectsResidual ==
    [][ (mv.pc = "step" /\ mv'.pushed = mv.pushed /\ mv' # mv
         /\ mv'.res \in {"nil"}) =>
        LET i == mv.i
            n == mv.steps
            nx == NextPos(mv.cx, mv.targetX, i, n)
            ny == NextPos(mv.cy, mv.targetY, i, n)
            rx == Sub32(nx, mv.curX)
            ry == Sub32(ny, mv.curY)
            dx == Sub32(mv'.sumX, mv.sumX)
            dy == Sub32(mv'.sumY, mv.sumY)
            small == i > n - 5 /\ abs(rx) < 3 /\ abs(ry) < 3
            off == IF i < n - 2 THEN {-1, 0, 1} ELSE {0}
        IN  IF mv'.sent = mv.sent + 1
            THEN /\ Sub32(dx, rx) \in off
                 /\ Sub32(dy, ry) \in off
                 /\ ~small
                 /\ ~(dx = 0 /\ dy = 0)
                 /\ Sub32(mv'.curX, nx) \in off
                 /\ Sub32(mv'.curY, ny) \in off
            ELSE /\ mv'.sent = mv.sent
                 /\ mv'.curX = mv.curX /\ mv'.curY = mv.curY
                 /\ \/ small
                    \/ \E jx, jy \in off :
                          Add32(rx, jx) = 0 /\ Add32(ry, jy) = 0 ]_vars

\* A move from (500, 500) to (520, 480) returned nil with the cursor on
\* the target after the user had pushed it by (7, -4): the injected deltas
\* sum to (13, -16).
C35_Witness ==
    /\ mv.pc = "done"
    /\ mv.res = "nil"
    /\ mv.pushed = 1
    /\ mv.targetX = 520 /\ mv.targetY = 480
    /\ mv.curX = 520 /\ mv.curY = 480
    /\ mv.sumX = 13 /\ mv.sumY = -16

\* What a delivered pointer event is: the whole trajectory or part of it,
\* a button going down or up.
Kind(e) ==
    CASE e.via = "hid.Move" -> IF e.whole THEN "move" ELSE "part"
      [] e.via = "SendMouse" ->
            IF Word(e.arg, 0) = MouseStateLeftDown THEN "down"
            ELSE IF Word(e.arg, 0) = MouseStateLeftUp THEN "up"
            ELSE "other"
      [] OTHER ->
            IF e.msg = WM_MOUSEMOVE THEN "move"
            ELSE IF e.msg = WM_LBUTTONDOWN THEN "down"
            ELSE IF e.msg = WM_LBUTTONUP THEN "up"
            ELSE "other"

\* C36: Click delivers the move to the target, then the button-down, then
\* the button-up, under either backend; when it returns an error it has
\* delivered a prefix of the three and nothing after the call that failed:
\* after a trajectory that failed or timed out no button stroke, after a
\* failed button-down no button-up.  While the trajectory is under way,
\* with the timer and the user's hand between its steps, nothing else has
\* been delivered and it goes to the screen position of the client point.
C36_ClickMovesFirst ==
    encOut.fn = "Click" =>
        LET kinds == [j \in 1..Len(encOut.out) |-> Kind(encOut.out[j])]
            s == ClientToScreen(encIn.origin, encIn.x, encIn.y)
        IN  /\ IF PtrReturned("Click") /\ encOut.res = "nil"
               THEN kinds = <<"move", "down", "up">>
               ELSE kinds \in {<<>>, <<"part">>, <<"move">>,
                               <<"move", "down">>}
            /\ mv.pc # "idle" =>
                  /\ kinds = <<>>
                  /\ mv.targetX = s.x /\ mv.targetY = s.y
            /\ encOut.out # <<>> =>
                  IF encIn.cb = BackendHID
                  THEN encOut.out[1].x = s.x /\ encOut.out[1].y = s.y
                  ELSE Unpack(encOut.out[1].lparam) =
                          [x |-> Clamp16(encIn.x), y |-> Clamp16(encIn.y)]

\* Click(-7, 20) under the HID backend, with the cursor at (130, -30),
\* returned nil after the trajectory to screen (93, -30), which left the
\* cursor there, the button-down and the button-up.
C36_Witness ==
    /\ PtrReturned("Click")
    /\ encIn.cb = BackendHID
    /\ encIn.x = -7 /\ encIn.y = 20
    /\ encOut.res = "nil"
    /\ Len(encOut.out) = 3
    /\ encOut.out[1] = [via |-> "hid.Move", x |-> 93, y |-> -30,
                        whole |-> TRUE, at |-> [x |-> 93, y |-> -30]]
    /\ Word(encOut.out[2].arg, 0) = MouseStateLeftDown
    /\ Word(encOut.out[3].arg, 0) = MouseStateLeftUp

\* C37: the parameter of a key event has bit 24 clear for left Ctrl, left
\* Alt and the slash of the main block, and set for right Ctrl, right Alt
\* and numpad divide.
C37_ExtendedFlagDistinguishes ==
    encOut.fn = "makeKeyLParam" =>
        LET bit24 == (encOut.lparam.hi \div 256) % 2
        IN  /\ encIn.name \in {"KeyCtrl", "KeyAlt", "KeySlash"} => bit24 = 0
            /\ encIn.name \in {"KeyRightCtrl", "KeyRightAlt", "KeyDivide"}
                  => bit24 = 1

\* C38: Move, Click and MoveRel never mix coordinate spaces.  Under the
\* HID backend nothing is posted and every trajectory goes to a screen
\* position: the client point displaced by the window's client origin, or
\* for MoveRel the cursor position plus (dx, dy).  Under the Message
\* backend no stroke is sent and every message carries a client position
\* (as far as 16 bits hold it): the client point, or for MoveRel the cursor
\* position plus (dx, dy) less the client origin.  A trajectory that is
\* under way goes to that screen position as well.  When a conversion
\* fails nothing is delivered.
C38_SpacesNotMixed ==
    \A fn \in {"Move", "Click", "MoveRel"} :
        encOut.fn = fn =>
            LET rel == [x |-> Add32(encIn.cursor.x, encIn.x),
                        y |-> Add32(encIn.cursor.y, encIn.y)]
                screen == IF fn = "MoveRel" THEN rel
                          ELSE [x |-> Add32(encIn.x, encIn.origin.x),
                                y |-> Add32(encIn.y, encIn.origin.y)]
                client == IF fn = "MoveRel"
                          THEN [x |-> Sub32(rel.x, encIn.origin.x),
                                y |-> Sub32(rel.y, encIn.origin.y)]
                          ELSE [x |-> encIn.x, y |-> encIn.y]
            IN  /\ \A j \in 1..Len(encOut.out) :
                      LET e == encOut.out[j]
                      IN  IF encIn.cb = BackendHID
                          THEN /\ e.via \in {"hid.Move", "SendMouse"}
                               /\ e.via = "hid.Move" =>
                                     e.x = screen.x /\ e.y = screen.y
                          ELSE /\ e.via = "PostMessage"
                               /\ Unpack(e.lparam) =
                                     [x |-> Clamp16(client.x),
                                      y |-> Clamp16(client.y)]
                /\ mv.pc # "idle" =>
                      /\ encIn.cb = BackendHID
                      /\ mv.targetX = screen.x /\ mv.targetY = screen.y
                /\ encOut.res \in {"window is minimized",
                                   "ClientToScreen failed",
                                   "ScreenToClient failed"}
                      => encOut.out = <<>>

\* MoveRel(30, 20) under the Message backend with the cursor at screen
\* (500, 500) and the client origin at screen (100, -50) posted the client
\* position (430, 570).
C38_Witness ==
    /\ PtrReturned("MoveRel")
    /\ encIn.cb = BackendMessage
    /\ encIn.x = 30 /\ encIn.y = 20
    /\ encIn.cursor = [x |-> 500, y |-> 500]
    /\ encOut.res = "nil"
    /\ Len(encOut.out) = 1
    /\ encOut.out[1].msg = WM_MOUSEMOVE
    /\ Unpack(encOut.out[1].lparam) = [x |-> 430, y |-> 570]

\* C39: when hid.Init returns an error to its caller no partial session
\* remains: initialized is false, the context handle is 0, every context
\* ever created has been destroyed and the library is unloaded, so the
\* next Init loads the library again and fails with the loader's error
\* where the library cannot be found.
C39_FailedInitLeavesNothing ==
    [][\A p \in Procs :
          (/\ pc[p] \in {"Init", "EnsureInit_Init"}
           /\ pc'[p] = "Unlock"
           /\ cause'[p] # "nil")
          => /\ ~initialized'
             /\ ctx' = 0
             /\ dllHandle' = 0
             /\ \A h \in 1..created' : h \in destroyed'
             /\ \A e \in Environments :
                   e.library = "missing"
                       => (InitOutcome(e).err)' = "ErrLibraryNotFound"]_vars

\* The positions of the characters of a text that have no scan-code
\* mapping.
Unmapped(text) == {j \in 1..Len(text) : ~LookupKey(text[j]).ok}

\* C40: under the HID backend Type(text) returns ErrUnsupportedKey exactly
\* when text contains a character with no scan-code mapping; it stops at
\* the first such character, having typed every character before it and
\* none after it.
C40_TypeStopsAtUnsupported ==
    (Returning("Type") /\ kb.call.cb = BackendHID) =>
        /\ kb.res = "ErrUnsupportedKey" <=> Unmapped(kb.call.text) # {}
        /\ Unmapped(kb.call.text) # {} =>
              \E first \in Unmapped(kb.call.text) :
                  /\ \A j \in Unmapped(kb.call.text) : first <= j
                  /\ KeyEvents(kb.out) =
                         TypingAll(SubSeq(kb.call.text, 1, first - 1))

====
